---- MODULE Spec2Model ----
(***************************************************************************)
(* Reconciliation of one recorded conversation (Fast-Accent-Translator):   *)
(* the upload websocket, the deferred reconciliation pass                  *)
(* (on_conversation_end_diarization), the persistence step                 *)
(* (save_formatted_sentences and the inline tier-2 loop), and the REST     *)
(* requests that touch the same transcript rows.                           *)
(*                                                                         *)
(* Conventions.  A text is the sequence of its whitespace-separated        *)
(* tokens; words are the integers 1, 2, ... and the token Dot stands for   *)
(* sentence punctuation.  A blank text (empty or whitespace only) is <<>>. *)
(* Times are integers in milliseconds.  asyncio runs the code between two  *)
(* awaits atomically, so every action below is the code from one await to  *)
(* the next.                                                               *)
(***************************************************************************)
EXTENDS Integers, Sequences, FiniteSets, TLC

\* ---------------------------------------------------------------- bounds
MaxRec == 2        \* upload connections (recordings) of the conversation
MaxAppend == 1     \* append-segment requests
MaxSent == 2       \* sentences in one formatter answer
MaxSeg == 1        \* raw segments in one ASR answer

\* ------------------------------------------------------ program constants
estimated_duration_per_sentence == 3000
ConvStartMs == 100000     \* int(conv.started_at.timestamp() * 1000)

\* ------------------------------------------------------------ vocabulary
Dot == 0                  \* a token matched by [.!?]+ in _simple_split
None == -1                \* Python None / SQL NULL in an integer column
NoSes == 0                \* the {} that _sessions.get(conv_id, {}) returns
Recs == 1..MaxRec
SegMs == 1000             \* length of one raw ASR segment of the inputs

Max2(a, b) == IF a >= b THEN a ELSE b
Min2(a, b) == IF a <= b THEN a ELSE b

RECURSIVE SplitOnDot(_, _)
SplitOnDot(text, cur) ==
    IF text = <<>>
    THEN IF cur = <<>> THEN <<>> ELSE <<cur>>
    ELSE IF Head(text) = Dot
         THEN (IF cur = <<>> THEN <<>> ELSE <<cur>>) \o SplitOnDot(Tail(text), <<>>)
         ELSE SplitOnDot(Tail(text), Append(cur, Head(text)))

\* GPTFormatterService._simple_split: split on punctuation, drop blank
\* pieces, alternate the labels A and B.
simple_split(text) ==
    LET parts == SplitOnDot(text, <<>>)
    IN  [i \in 1..Len(parts) |->
            [text |-> parts[i], speaker |-> IF (i - 1) % 2 = 0 THEN "A" ELSE "B"]]

\* ------------------------------------------------- diarization_matcher.py
Space == -2               \* the blank between two words of a normalized text

RECURSIVE Words(_)
\* the word tokens of a text: what survives re.sub(r'[^\w\s]', '', text)
Words(text) ==
    IF text = <<>> THEN <<>>
    ELSE IF Head(text) = Dot THEN Words(Tail(text))
         ELSE <<Head(text)>> \o Words(Tail(text))

RECURSIVE JoinSpace(_)
JoinSpace(ws) ==
    IF Len(ws) <= 1 THEN ws ELSE <<Head(ws), Space>> \o JoinSpace(Tail(ws))

\* normalize_text: punctuation removed, whitespace collapsed, stripped; the
\* result is the character sequence (one character per word).
normalize_text(text) == JoinSpace(Words(text))

\* len(text) of the raw string: one character per token, one blank between
RawLen(text) == IF text = <<>> THEN 0 ELSE 2 * Len(text) - 1

RECURSIVE RunLen(_, _, _, _, _, _)
RunLen(a, b, i, j, ahi, bhi) ==
    IF i > ahi \/ j > bhi THEN 0
    ELSE IF a[i] # b[j] THEN 0
         ELSE 1 + RunLen(a, b, i + 1, j + 1, ahi, bhi)

\* the block at c, with its length taken from len
Block(c, len) == [i |-> c[1], j |-> c[2], k |-> len[c]]

\* the longest block, the earliest in a, then the earliest in b
BestBlock(cands, len) ==
    Block(CHOOSE c \in cands :
             \A d \in cands :
                \/ len[d] < len[c]
                \/ len[d] = len[c] /\ (c[1] < d[1] \/ (c[1] = d[1] /\ c[2] <= d[2])),
          len)

\* difflib.SequenceMatcher.find_longest_match on a[alo..ahi], b[blo..bhi]
find_longest_match(a, b, alo, ahi, blo, bhi) ==
    BestBlock((alo..ahi) \X (blo..bhi),
              [c \in (alo..ahi) \X (blo..bhi) |-> RunLen(a, b, c[1], c[2], ahi, bhi)])

RECURSIVE MatchCount(_, _, _, _, _, _)
\* the block m and the matching blocks to its left and to its right
MatchAround(a, b, alo, ahi, blo, bhi, m) ==
    IF m.k = 0 THEN 0
    ELSE m.k + MatchCount(a, b, alo, m.i - 1, blo, m.j - 1)
             + MatchCount(a, b, m.i + m.k, ahi, m.j + m.k, bhi)

\* the sum of the sizes of get_matching_blocks()
MatchCount(a, b, alo, ahi, blo, bhi) ==
    IF alo > ahi \/ blo > bhi THEN 0
    ELSE MatchAround(a, b, alo, ahi, blo, bhi,
                     find_longest_match(a, b, alo, ahi, blo, bhi))

\* SequenceMatcher(None, norm1, norm2).ratio() as the fraction <<2*M, T>>
Ratio(norm1, norm2) ==
    IF norm1 = <<>> \/ norm2 = <<>> THEN <<0, 1>>
    ELSE <<2 * MatchCount(norm1, norm2, 1, Len(norm1), 1, Len(norm2)),
           Len(norm1) + Len(norm2)>>

\* text_similarity; <<0, 1>> when either normalized text is empty
text_similarity(text1, text2) == Ratio(normalize_text(text1), normalize_text(text2))

\* similarity > percent / 100
SimAbove(sim, percent) == 100 * sim[1] > percent * sim[2]

RECURSIVE AlignSearch(_, _, _, _, _, _)
\* a variant of the round that leaves the cursor on the matched segment
AlignStepKeepsCursor(gpt_text, segs, i, seg, acc, similarity, matched_segments, whisper_idx) ==
    IF SimAbove(similarity, 70)
       \/ Len(normalize_text(acc)) >= Len(normalize_text(gpt_text))
    THEN [matched |-> Append(matched_segments, seg), whisper_idx |-> i]
    ELSE IF SimAbove(similarity, 30)
         THEN AlignSearch(gpt_text, segs, i + 1, acc, Append(matched_segments, seg),
                          whisper_idx)
         ELSE AlignSearch(gpt_text, segs, i + 1, acc, matched_segments, whisper_idx)

\* one round of the inner loop: seg is whisper_segments[i], acc the
\* accumulated text with seg's text added
AlignStep(gpt_text, segs, i, seg, acc, similarity, matched_segments, whisper_idx) ==
    IF SimAbove(similarity, 70)
       \/ Len(normalize_text(acc)) >= Len(normalize_text(gpt_text))
    THEN [matched |-> Append(matched_segments, seg), whisper_idx |-> i + 1]
    ELSE IF SimAbove(similarity, 30)
         THEN AlignSearch(gpt_text, segs, i + 1, acc, Append(matched_segments, seg),
                          whisper_idx)
         ELSE AlignSearch(gpt_text, segs, i + 1, acc, matched_segments, whisper_idx)

\* the inner loop "for i in range(whisper_idx, len(whisper_segments))" of
\* align_sentences_with_whisper; i and whisper_idx are 0-based as in the code.
AlignSearch(gpt_text, segs, i, accumulated_text, matched_segments, whisper_idx) ==
    IF i >= Len(segs)
    THEN [matched |-> matched_segments, whisper_idx |-> whisper_idx]
    ELSE AlignStep(gpt_text, segs, i, segs[i + 1], accumulated_text \o segs[i + 1].text,
                   text_similarity(gpt_text, accumulated_text \o segs[i + 1].text),
                   matched_segments, whisper_idx)

\* "if not matched_segments and whisper_idx < len(whisper_segments)": the
\* next segment is taken
Forced(found, segs) ==
    IF found.matched = <<>> /\ found.whisper_idx < Len(segs)
    THEN [matched |-> <<segs[found.whisper_idx + 1]>>,
          whisper_idx |-> found.whisper_idx + 1]
    ELSE found

\* the aligned sentence: the span of the matched segments, else an estimate
\* after the previous sentence (0.1 s per character)
Aligned(gpt_sent, matched, aligned) ==
    IF matched # <<>>
    THEN [start |-> matched[1].start, end |-> matched[Len(matched)].end,
          text |-> gpt_sent.text, gpt_speaker |-> gpt_sent.speaker]
    ELSE [start |-> IF aligned # <<>> THEN aligned[Len(aligned)].end ELSE 0,
          end |-> (IF aligned # <<>> THEN aligned[Len(aligned)].end ELSE 0)
                  + RawLen(gpt_sent.text) * 100,
          text |-> gpt_sent.text, gpt_speaker |-> gpt_sent.speaker]

RECURSIVE AlignLoop(_, _, _, _, _)
\* a variant of the outer loop that leaves out a sentence without segments
AlignOneDropsUnmatched(gpt_sentences, segs, k, aligned, found) ==
    IF found.matched = <<>>
    THEN AlignLoop(gpt_sentences, segs, k + 1, aligned, found.whisper_idx)
    ELSE AlignLoop(gpt_sentences, segs, k + 1,
                   Append(aligned, Aligned(gpt_sentences[k], found.matched, aligned)),
                   found.whisper_idx)

\* one sentence of the outer loop, found being what the inner loop returned
AlignOne(gpt_sentences, segs, k, aligned, found) ==
    AlignLoop(gpt_sentences, segs, k + 1,
              Append(aligned, Aligned(gpt_sentences[k], found.matched, aligned)),
              found.whisper_idx)

\* the outer loop over gpt_sentences, from sentence k (1-based) on
AlignLoop(gpt_sentences, segs, k, aligned, whisper_idx) ==
    IF k > Len(gpt_sentences) THEN aligned
    ELSE IF gpt_sentences[k].text = <<>>
         THEN AlignLoop(gpt_sentences, segs, k + 1, aligned, whisper_idx)
         ELSE AlignOne(gpt_sentences, segs, k, aligned,
                       Forced(AlignSearch(gpt_sentences[k].text, segs, whisper_idx,
                                          <<>>, <<>>, whisper_idx),
                              segs))

align_sentences_with_whisper(gpt_sentences, whisper_segments) ==
    IF gpt_sentences = <<>> \/ whisper_segments = <<>> THEN <<>>
    ELSE AlignLoop(gpt_sentences, whisper_segments, 1, <<>>, 0)

RECURSIVE AddOverlap(_, _, _)
\* overlaps[diar_speaker] = overlaps.get(diar_speaker, 0.0) + overlap_dur, the
\* dict kept as the sequence of its items in insertion order
AddOverlap(overlaps, spk, dur) ==
    IF overlaps = <<>> THEN <<[speaker |-> spk, dur |-> dur]>>
    ELSE IF Head(overlaps).speaker = spk
         THEN <<[speaker |-> spk, dur |-> Head(overlaps).dur + dur]>> \o Tail(overlaps)
         ELSE <<Head(overlaps)>> \o AddOverlap(Tail(overlaps), spk, dur)

RECURSIVE Overlaps(_, _, _, _)
\* a variant that counts only the turns reaching beyond the sentence on both
\* sides
OverlapsStrictlyAround(sent_start, sent_end, diar_segments, overlaps) ==
    IF diar_segments = <<>> THEN overlaps
    ELSE LET diar == Head(diar_segments)
         IN  IF diar.start < sent_start /\ diar.end > sent_end
             THEN Overlaps(sent_start, sent_end, Tail(diar_segments),
                      AddOverlap(overlaps, diar.speaker_id,
                          Max2(0, Min2(sent_end, diar.end) - Max2(sent_start, diar.start))))
             ELSE Overlaps(sent_start, sent_end, Tail(diar_segments), overlaps)

\* the loop over diar_segments for one sentence: the overlap per speaker
Overlaps(sent_start, sent_end, diar_segments, overlaps) ==
    IF diar_segments = <<>> THEN overlaps
    ELSE LET diar == Head(diar_segments)
         IN  IF diar.start < sent_end /\ diar.end > sent_start
             THEN Overlaps(sent_start, sent_end, Tail(diar_segments),
                      AddOverlap(overlaps, diar.speaker_id,
                          Max2(0, Min2(sent_end, diar.end) - Max2(sent_start, diar.start))))
             ELSE Overlaps(sent_start, sent_end, Tail(diar_segments), overlaps)

RECURSIVE SumDur(_)
SumDur(overlaps) == IF overlaps = <<>> THEN 0 ELSE Head(overlaps).dur + SumDur(Tail(overlaps))

\* a variant that takes the first speaker met
BestOverlapFirstMet(overlaps) == overlaps[1]

\* max(overlaps, key=overlaps.get): the first item of maximal value
BestOverlap(overlaps) ==
    LET n == CHOOSE m \in 1..Len(overlaps) :
                 /\ \A q \in 1..Len(overlaps) : overlaps[q].dur <= overlaps[m].dur
                 /\ \A q \in 1..(m - 1) : overlaps[q].dur < overlaps[m].dur
    IN  overlaps[n]

RECURSIVE AssignLoop(_, _, _, _)
\* a variant whose fallback is always the default speaker
AssignLoopDefaultFallback(sentences, diar_segments, k, labeled) ==
    IF k > Len(sentences) THEN labeled
    ELSE LET sent == sentences[k]
             overlaps == Overlaps(sent.start, sent.end, diar_segments, <<>>)
             total_overlap == SumDur(overlaps)
             unreliable == overlaps = <<>> \/ total_overlap < 100
             best_speaker == IF unreliable THEN "SPEAKER_00"
                             ELSE BestOverlap(overlaps).speaker
             confidence == IF unreliable THEN <<0, 1>>
                           ELSE <<BestOverlap(overlaps).dur, total_overlap>>
         IN  AssignLoop(sentences, diar_segments, k + 1,
                 Append(labeled, [start |-> sent.start, end |-> sent.end,
                                  text |-> sent.text, speaker_id |-> best_speaker,
                                  gpt_speaker |-> sent.gpt_speaker,
                                  confidence |-> confidence]))

\* the loop over the sentences, from sentence k on; a confidence is the
\* fraction <<overlap of the best speaker, total overlap>>
AssignLoop(sentences, diar_segments, k, labeled) ==
    IF k > Len(sentences) THEN labeled
    ELSE LET sent == sentences[k]
             overlaps == Overlaps(sent.start, sent.end, diar_segments, <<>>)
             total_overlap == SumDur(overlaps)
             previous == IF labeled # <<>> THEN labeled[Len(labeled)].speaker_id
                         ELSE "SPEAKER_00"
             unreliable == overlaps = <<>> \/ total_overlap < 100
             best_speaker == IF unreliable THEN previous ELSE BestOverlap(overlaps).speaker
             confidence == IF unreliable THEN <<0, 1>>
                           ELSE <<BestOverlap(overlaps).dur, total_overlap>>
         IN  AssignLoop(sentences, diar_segments, k + 1,
                 Append(labeled, [start |-> sent.start, end |-> sent.end,
                                  text |-> sent.text, speaker_id |-> best_speaker,
                                  gpt_speaker |-> sent.gpt_speaker,
                                  confidence |-> confidence]))

assign_speakers_to_sentences(sentences, diar_segments) ==
    AssignLoop(sentences, diar_segments, 1, <<>>)

\* ------------------------------------------- ws_upload.py, the merge passes
OVERLAP_THRESHOLD == 45   \* percent
MAX_GAP_MS == 2000

RECURSIVE InsertByStart(_, _)
InsertByStart(sorted, x) ==
    IF sorted = <<>> THEN <<x>>
    ELSE IF x.start_ms < Head(sorted).start_ms THEN <<x>> \o sorted
         ELSE <<Head(sorted)>> \o InsertByStart(Tail(sorted), x)

RECURSIVE SortByStart(_)
\* sorted(segments, key=lambda x: x["start_ms"]): stable
SortByStart(segments) ==
    IF segments = <<>> THEN <<>>
    ELSE InsertByStart(SortByStart(SubSeq(segments, 1, Len(segments) - 1)),
                       segments[Len(segments)])

RECURSIVE MatchTurn(_, _, _, _, _)
\* a variant that takes a segment only above the threshold
MatchTurnAboveThreshold(diar_seg, asr_segments, idx, texts, used) ==
    IF idx > Len(asr_segments) THEN [texts |-> texts, used |-> used]
    ELSE LET asr_seg == asr_segments[idx]
             overlap == Min2(diar_seg.end_ms, asr_seg.end_ms)
                        - Max2(diar_seg.start_ms, asr_seg.start_ms)
             asr_duration == asr_seg.end_ms - asr_seg.start_ms
         IN  IF idx \notin used /\ asr_duration > 0 /\ overlap > 0
                /\ 100 * overlap > OVERLAP_THRESHOLD * asr_duration
             THEN MatchTurn(diar_seg, asr_segments, idx + 1,
                            Append(texts, asr_seg.text), used \cup {idx})
             ELSE MatchTurn(diar_seg, asr_segments, idx + 1, texts, used)

\* the inner loop of merge_asr_and_diarization for one diarization segment:
\* the texts gathered and the ASR indices used so far
MatchTurn(diar_seg, asr_segments, idx, texts, used) ==
    IF idx > Len(asr_segments) THEN [texts |-> texts, used |-> used]
    ELSE LET asr_seg == asr_segments[idx]
             overlap == Min2(diar_seg.end_ms, asr_seg.end_ms)
                        - Max2(diar_seg.start_ms, asr_seg.start_ms)
             asr_duration == asr_seg.end_ms - asr_seg.start_ms
         IN  IF idx \notin used /\ asr_duration > 0 /\ overlap > 0
                /\ 100 * overlap >= OVERLAP_THRESHOLD * asr_duration
             THEN MatchTurn(diar_seg, asr_segments, idx + 1,
                            Append(texts, asr_seg.text), used \cup {idx})
             ELSE MatchTurn(diar_seg, asr_segments, idx + 1, texts, used)

RECURSIVE JoinTexts(_)
JoinTexts(texts) == IF texts = <<>> THEN <<>> ELSE Head(texts) \o JoinTexts(Tail(texts))

RECURSIVE MergeTurns(_, _, _, _, _)
MergeTurns(asr_segments, diar_segments, d, merged, used) ==
    IF d > Len(diar_segments) THEN merged
    ELSE LET diar_seg == diar_segments[d]
             m == MatchTurn(diar_seg, asr_segments, 1, <<>>, used)
         IN  MergeTurns(asr_segments, diar_segments, d + 1,
                 IF m.texts # <<>>
                 THEN Append(merged, [speaker_id |-> diar_seg.speaker_id,
                                      start_ms |-> diar_seg.start_ms,
                                      end_ms |-> diar_seg.end_ms,
                                      text |-> JoinTexts(m.texts)])
                 ELSE merged,
                 m.used)

\* a variant that returns the merged segments in the order of the turns
merge_asr_and_diarization_unsorted(asr_segments, diar_segments) ==
    IF asr_segments = <<>> \/ diar_segments = <<>> THEN <<>>
    ELSE MergeTurns(asr_segments, diar_segments, 1, <<>>, {})

merge_asr_and_diarization(asr_segments, diar_segments) ==
    IF asr_segments = <<>> \/ diar_segments = <<>> THEN <<>>
    ELSE SortByStart(MergeTurns(asr_segments, diar_segments, 1, <<>>, {}))

RECURSIVE FoldSameSpeaker(_, _, _)
\* a variant that stops after the first pair it has merged
FoldFirstPair(segments, current, merged) ==
    IF segments = <<>> THEN Append(merged, current)
    ELSE LET seg == Head(segments)
         IN  IF seg.speaker_id = current.speaker_id
                /\ seg.start_ms - current.end_ms <= MAX_GAP_MS
             THEN Append(merged, [current EXCEPT !.end_ms = seg.end_ms,
                                                 !.text = current.text \o seg.text])
                  \o Tail(segments)
             ELSE FoldSameSpeaker(Tail(segments), seg, Append(merged, current))

\* a variant that merges only when the gap is below MAX_GAP_MS
FoldBelowMaxGap(segments, current, merged) ==
    IF segments = <<>> THEN Append(merged, current)
    ELSE LET seg == Head(segments)
         IN  IF seg.speaker_id = current.speaker_id
                /\ seg.start_ms - current.end_ms < MAX_GAP_MS
             THEN FoldSameSpeaker(Tail(segments),
                      [current EXCEPT !.end_ms = seg.end_ms,
                                      !.text = current.text \o seg.text],
                      merged)
             ELSE FoldSameSpeaker(Tail(segments), seg, Append(merged, current))

\* the loop of merge_consecutive_same_speaker over the sorted segments
FoldSameSpeaker(segments, current, merged) ==
    IF segments = <<>> THEN Append(merged, current)
    ELSE LET seg == Head(segments)
         IN  IF seg.speaker_id = current.speaker_id
                /\ seg.start_ms - current.end_ms <= MAX_GAP_MS
             THEN FoldSameSpeaker(Tail(segments),
                      [current EXCEPT !.end_ms = seg.end_ms,
                                      !.text = current.text \o seg.text],
                      merged)
             ELSE FoldSameSpeaker(Tail(segments), seg, Append(merged, current))

merge_consecutive_same_speaker(segments) ==
    IF segments = <<>> THEN <<>>
    ELSE LET sorted == SortByStart(segments)
         IN  FoldSameSpeaker(Tail(sorted), Head(sorted), <<>>)

RECURSIVE TotalDuration(_)
TotalDuration(diar_segments) ==
    IF diar_segments = <<>> THEN 0
    ELSE Head(diar_segments).end_ms - Head(diar_segments).start_ms
         + TotalDuration(Tail(diar_segments))

RECURSIVE FallbackLoop(_, _, _, _, _)
\* the loop of fallback_merge_with_full_text; word_idx is 0-based as in the code
FallbackLoop(words, diar_segments, total_duration, word_idx, merged) ==
    IF diar_segments = <<>>
    THEN IF word_idx < Len(words) /\ merged # <<>>
         THEN [merged EXCEPT ![Len(merged)].text =
                  @ \o SubSeq(words, word_idx + 1, Len(words))]
         ELSE merged
    ELSE LET diar_seg == Head(diar_segments)
             seg_duration == diar_seg.end_ms - diar_seg.start_ms
             seg_word_count == Max2(1, (Len(words) * seg_duration) \div total_duration)
             seg_words == SubSeq(words, word_idx + 1,
                                 Min2(Len(words), word_idx + seg_word_count))
         IN  FallbackLoop(words, Tail(diar_segments), total_duration,
                          word_idx + seg_word_count,
                          IF seg_words # <<>>
                          THEN Append(merged, [speaker_id |-> diar_seg.speaker_id,
                                               start_ms |-> diar_seg.start_ms,
                                               end_ms |-> diar_seg.end_ms,
                                               text |-> seg_words])
                          ELSE merged)

fallback_merge_with_full_text(full_text, diar_segments) ==
    IF full_text = <<>> \/ diar_segments = <<>> THEN <<>>
    ELSE IF TotalDuration(diar_segments) = 0 THEN <<>>
         ELSE FallbackLoop(full_text, diar_segments, TotalDuration(diar_segments),
                           0, <<>>)

\* ------------------------------------------------------------------ state
VARIABLES
    settings,     \* app.config.settings and the services' availability
    convExists,   \* the Conversation row exists
    transcripts,  \* the Transcript rows of the conversation, in insertion order
    sessions,     \* _sessions[conv_id]: the recording whose dict is stored, or NoSes
    sesObj,       \* the session dict each start message created
    conn,         \* each upload connection's position in ws_upload
    audio,        \* whether the connection's audio_buffer holds data
    pass,         \* each recording's on_conversation_end_diarization task
    published,    \* the payloads published on the conversation's text topic
    appends,      \* append-segment requests served
    hist,         \* what each recording's pass has done so far (history)
    call,         \* a call of a matcher or merge function: arguments and result
    channel,      \* pubsub.channel: the subscribers, the publishes and the sends
    detector      \* hallucination_detector: its history and its last verdict

vars == <<settings, convExists, transcripts, sessions, sesObj, conn, audio, pass,
          published, appends, hist, call, channel, detector>>

\* ----------------------------------------------- collaborators' answers
SeqsUpTo(S, n) == UNION {[1..k -> S] : k \in 0..n}

\* what the formatter (an LLM) may answer: any short list of sentences, a
\* sentence possibly with blank text
SentenceChoices == {[text |-> <<1>>, speaker |-> "A"], [text |-> <<>>, speaker |-> "B"]}
FormatterOutputs == SeqsUpTo(SentenceChoices, MaxSent)

RECURSIVE FullText(_)
FullText(segments) ==
    IF segments = <<>> THEN <<>> ELSE Head(segments).text \o FullText(Tail(segments))

\* TranscriptionResult of OpenAIWhisperService.transcribe: n segments of SegMs
\* each, segment i saying two one-word sentences; the full text is their
\* concatenation
AsrSegments(n) ==
    [i \in 1..n |-> [text |-> <<i, Dot, i + 10, Dot>>, start |-> (i - 1) * SegMs,
                     end |-> i * SegMs]]
AsrResults ==
    {[full_text |-> FullText(AsrSegments(n)), segments |-> AsrSegments(n)] : n \in 0..MaxSeg}
NoAsr == [full_text |-> <<>>, segments |-> <<>>]

Turn(spk, s, e) == [speaker_id |-> spk, start_ms |-> s, end_ms |-> e]
\* what DiarizationService.analyze_speakers may return ([] also on failure)
\* n turns, turn i over raw segment i, the two speakers alternating; or one
\* turn far after the speech
DiarTurns(n) ==
    [i \in 1..n |-> Turn(IF i % 2 = 1 THEN "SPEAKER_00" ELSE "SPEAKER_01",
                         (i - 1) * SegMs, i * SegMs)]
DiarOutputs ==
    {DiarTurns(n) : n \in 0..MaxSeg} \cup {<<Turn("SPEAKER_01", 10 * SegMs, 11 * SegMs)>>}

\* TranscriptSegment.start_ms / end_ms
AsrMs(segments) ==
    [i \in 1..Len(segments) |->
        [text |-> segments[i].text, start_ms |-> segments[i].start,
         end_ms |-> segments[i].end]]

\* diar_segments_sec of on_conversation_end_diarization
DiarSec(diar_segments) ==
    [i \in 1..Len(diar_segments) |->
        [start |-> diar_segments[i].start_ms, end |-> diar_segments[i].end_ms,
         speaker_id |-> diar_segments[i].speaker_id]]

\* gpt_formatter.is_available()
GptAvailable == settings.api_key /\ settings.enable_gpt_formatting

\* diarization_service.is_available()
DiarAvailable == settings.diar_available

\* ------------------------------------------------------------ the tables
Count(rows) == Len(rows)

RECURSIVE SeqGt(_, _)
\* Transcript.filter(conversation_id=conv_id, seq__gt=start_seq)
SeqGt(rows, start_seq) ==
    IF rows = <<>> THEN <<>>
    ELSE IF Head(rows).seq > start_seq THEN <<Head(rows)>> \o SeqGt(Tail(rows), start_seq)
         ELSE SeqGt(Tail(rows), start_seq)

RECURSIVE SeqLe(_, _)
\* what .filter(seq__gt=start_seq).delete() leaves
SeqLe(rows, start_seq) ==
    IF rows = <<>> THEN <<>>
    ELSE IF Head(rows).seq > start_seq THEN SeqLe(Tail(rows), start_seq)
         ELSE <<Head(rows)>> \o SeqLe(Tail(rows), start_seq)

SeqValues(rows) == {rows[k].seq : k \in 1..Len(rows)}
MaxSeq(rows) ==
    IF rows = <<>> THEN 0
    ELSE CHOOSE m \in SeqValues(rows) : \A x \in SeqValues(rows) : x <= m

\* Transcript.filter(...).order_by("-end_ms").first(): the end_ms values it
\* may carry.  A NULL end_ms sorts first under PostgreSQL and last under
\* SQLite, so with a NULL present either the NULL row or the largest value
\* can come first.
LatestEndMs(rows) ==
    LET ends == {rows[k].end_ms : k \in 1..Len(rows)}
        vals == ends \ {None}
        top == IF vals = {} THEN {} ELSE {CHOOSE m \in vals : \A x \in vals : x <= m}
    IN  IF rows = <<>> THEN {None}
        ELSE IF None \in ends THEN {None} \cup top ELSE top

\* time_offset of save_formatted_sentences and of the tier-2 loop
TimeOffset(end_ms) == IF end_ms # None /\ end_ms # 0 THEN end_ms - ConvStartMs ELSE 0

\* ------------------------------------------------------------------- Init
IdlePass ==
    [pc |-> "none", ses |-> NoSes, asr |-> NoAsr, formatted |-> <<>>,
     saving |-> <<>>, mode |-> "-", gpt |-> "-", diar |-> "-", removed |-> 0,
     k |-> 0, time_offset |-> 0, outcome |-> "-"]

FreshSes == [start_seq |-> 0]

\* asr: how the ASR call ended ("raised", "empty" full text, "text"); rows:
\* the rows the conversation held when it raised
NoHist == [asr |-> "-", rows |-> 0, deletes |-> 0, written |-> <<>>, notified |-> 0]

\* no function call is followed
NoCall == [fn |-> "-", args |-> <<>>, out |-> <<>>, pc |-> "-"]

\* the channel and the detector are not followed
NoChannel == [pc |-> "-"]
NoDetector == [pc |-> "-"]

\* The deployments: without the API key neither the ASR call nor the
\* formatter can run, and the diarization service's availability is read
\* only when diarization is enabled.
Deployments ==
    {s \in [enable_gpt_formatting : BOOLEAN, api_key : BOOLEAN,
            enable_diarization : BOOLEAN, diar_available : BOOLEAN] :
        /\ s.diar_available => s.enable_diarization
        /\ ~s.api_key => ~s.enable_gpt_formatting /\ ~s.enable_diarization}

Init ==
    /\ settings \in Deployments
    /\ convExists = TRUE
    /\ transcripts = <<>>
    /\ sessions = NoSes
    /\ sesObj = [r \in Recs |-> FreshSes]
    /\ conn = [r \in Recs |-> "idle"]
    /\ audio = [r \in Recs |-> FALSE]
    /\ pass = [r \in Recs |-> IdlePass]
    /\ published = <<>>
    /\ appends = 0
    /\ hist = [r \in Recs |-> NoHist]
    /\ call = NoCall
    /\ channel = NoChannel
    /\ detector = NoDetector

\* ------------------------------------------------------------- ws_upload
Active(r) == pass[r].pc \notin {"none", "created", "done"}

\* The session dicts still referred to: by _sessions, by a running pass (its
\* variable ses), or by their own recording up to the end of its pass.
Held(p, s, c) ==
    {s} \cup {p[q].ses : q \in {x \in Recs : p[x].pc \notin {"none", "created", "done"}}}
        \cup {d \in Recs : c[d] \in {"recording", "publishing"} \/ p[d].pc \notin {"none", "done"}}

\* the dicts after the unreferenced ones are freed
Release(objs) ==
    sesObj' = [d \in Recs |-> IF d \in Held(pass', sessions', conn') THEN objs[d]
                              ELSE FreshSes]

\* The start message: count the conversation's transcripts and store a fresh
\* session dict under the conversation id.  Connections are numbered in the
\* order of their start messages.
Start(r) ==
    /\ conn[r] = "idle"
    /\ \A q \in 1..(r - 1) : conn[q] # "idle"
    /\ sessions' = r
    /\ conn' = [conn EXCEPT ![r] = "recording"]
    /\ UNCHANGED <<channel, detector, call, settings, convExists, transcripts, audio, pass, published,
                   appends, hist>>
    /\ Release([sesObj EXCEPT ![r] = [start_seq |-> Count(transcripts)]])

\* a binary packet: audio_buffer.write
RecvAudio(r) ==
    /\ conn[r] = "recording"
    /\ ~audio[r]
    /\ audio' = [audio EXCEPT ![r] = TRUE]
    /\ UNCHANGED <<channel, detector, call, settings, convExists, transcripts, sessions, sesObj, conn, pass,
                   published, appends, hist>>

\* asyncio.create_task(on_conversation_end_diarization(...)), then ws.close()
SpawnPass(r) ==
    /\ pass' = [pass EXCEPT ![r].pc = "created"]
    /\ conn' = [conn EXCEPT ![r] = "closed"]

\* The stop message.  A non-empty webspeech_text is written into whatever dict
\* _sessions holds under the conversation id (KeyError when there is none:
\* the handler's except ends the connection); the stored text only selects
\* format_conversation_with_comparison over format_conversation, whose
\* answers are drawn from the same set, so the dicts here do not keep it.
\* on_stop_and_publish returns at once without audio and otherwise awaits
\* the real-time ASR call.
Stop(r, webspeech) ==
    /\ conn[r] = "recording"
    /\ IF webspeech /\ sessions = NoSes
       THEN /\ conn' = [conn EXCEPT ![r] = "error"]
            /\ UNCHANGED pass
       ELSE IF audio[r]
            THEN /\ conn' = [conn EXCEPT ![r] = "publishing"]
                 /\ UNCHANGED pass
            ELSE SpawnPass(r)
    /\ UNCHANGED <<channel, detector, call, settings, convExists, transcripts, sessions, audio, published,
                   appends, hist>>
    /\ Release(sesObj)

\* on_stop_and_publish returned (its ASR errors are swallowed)
StopPublished(r) ==
    /\ conn[r] = "publishing"
    /\ SpawnPass(r)
    /\ UNCHANGED <<channel, detector, call, settings, convExists, transcripts, sessions, sesObj, audio,
                   published, appends, hist>>

\* WebSocketDisconnect before the stop message: the session dict stays
Disconnect(r) ==
    /\ conn[r] = "recording"
    /\ conn' = [conn EXCEPT ![r] = "disconnected"]
    /\ UNCHANGED <<channel, detector, call, settings, convExists, transcripts, sessions, audio, pass,
                   published, appends, hist>>
    /\ Release(sesObj)

\* ----------------------------------------- on_conversation_end_diarization
\* ses.get("start_seq", 0) on the dict the pass captured
StartSeq(r) == IF pass[r].ses = NoSes THEN 0 ELSE sesObj[pass[r].ses].start_seq

\* the pass goes on to its next await
Goto(r, p) ==
    /\ pass' = [pass EXCEPT ![r] = p]
    /\ UNCHANGED <<sessions, sesObj>>

\* return / except, then the finally block: _sessions.pop(conv_id, None)
Finish(r, outcome) ==
    /\ pass' = [pass EXCEPT ![r] = [IdlePass EXCEPT !.pc = "done", !.outcome = outcome]]
    /\ sessions' = NoSes
    /\ Release(sesObj)

\* The task starts: ses = _sessions.get(conv_id, {}); no audio ends the pass,
\* otherwise the audio is transcoded and the ASR call awaited.
PassBegin(r) ==
    /\ pass[r].pc = "created"
    /\ UNCHANGED <<channel, detector, call, settings, convExists, transcripts, conn, audio, published,
                   appends, hist>>
    /\ IF audio[r]
       THEN Goto(r, [pass[r] EXCEPT !.pc = "asr", !.ses = sessions])
       ELSE Finish(r, "no_audio")

\* a variant of the except branch that clears the recording's range before
\* it returns
AsrFailedThenDeletes(r) ==
    /\ pass[r].pc = "asr"
    /\ transcripts' = SeqLe(transcripts, StartSeq(r))
    /\ hist' = [hist EXCEPT ![r].asr = "raised", ![r].rows = Count(transcripts),
                             ![r].deletes = @ + 1]
    /\ UNCHANGED <<channel, detector, call, settings, convExists, conn, audio, published, appends>>
    /\ Finish(r, "asr_failed")

\* the ASR call raises: "ASR failed", return
AsrFailed(r) ==
    /\ pass[r].pc = "asr"
    /\ hist' = [hist EXCEPT ![r].asr = "raised", ![r].rows = Count(transcripts)]
    /\ UNCHANGED <<channel, detector, call, settings, convExists, transcripts, conn, audio, published, appends>>
    /\ Finish(r, "asr_failed")

\* The ASR call returns (it needs the API key) and the tier is chosen:
\* formatter, else diarization, else no post-processing.
AsrReturned(r, res) ==
    /\ pass[r].pc = "asr"
    /\ settings.api_key
    /\ hist' = [hist EXCEPT ![r].asr = IF res.full_text = <<>> THEN "empty" ELSE "text"]
    /\ UNCHANGED <<channel, detector, call, settings, convExists, transcripts, conn, audio, published, appends>>
    /\ IF settings.enable_gpt_formatting /\ GptAvailable
       THEN Goto(r, [pass[r] EXCEPT !.pc = "gpt", !.asr = res])
       ELSE IF settings.enable_diarization
            THEN IF ~DiarAvailable
                 THEN Finish(r, "diar_unavailable")
                 ELSE Goto(r, [pass[r] EXCEPT !.pc = "diar2", !.asr = res])
            ELSE Finish(r, "skipped")

\* save_formatted_sentences(conv_id, sentences, ses) is entered (the ASR
\* result is not used from here on)
BeginSave(p, sentences, mode) ==
    [p EXCEPT !.pc = "delete", !.saving = sentences, !.mode = mode, !.k = 0,
              !.removed = 0, !.time_offset = 0, !.asr = NoAsr]

\* The formatter call is over with these sentences.  With diarization enabled
\* the sentences are aligned and, if the service is available, the
\* diarization call is awaited.  pass.gpt keeps how the formatter call ended
\* ("answered", "failed") and pass.diar how the diarization step went.
GptDone(r, sentences, how) ==
    LET p == [pass[r] EXCEPT !.formatted = sentences, !.gpt = how]
        aligned == align_sentences_with_whisper(sentences, pass[r].asr.segments)
    IN  Goto(r, IF settings.enable_diarization
                THEN IF ~DiarAvailable
                     THEN BeginSave([p EXCEPT !.diar = "unavailable"], aligned, "final")
                     ELSE [p EXCEPT !.pc = "diar1", !.saving = aligned, !.asr = NoAsr]
                ELSE BeginSave(p, sentences, "plain"))

\* format_conversation returns the formatter's own answer
GptReturned(r, sentences) ==
    /\ pass[r].pc = "gpt"
    /\ UNCHANGED <<channel, detector, call, settings, convExists, transcripts, conn, audio, published,
                   appends, hist>>
    /\ GptDone(r, sentences, "answered")

\* a variant of the failure branch that ends the pass
GptFailedAborts(r) ==
    /\ pass[r].pc = "gpt"
    /\ UNCHANGED <<channel, detector, call, settings, convExists, transcripts, conn, audio, published,
                   appends, hist>>
    /\ Finish(r, "gpt_failed")

\* The formatter call fails: format_conversation catches the exception and
\* returns _simple_split(raw_text).
GptFailed(r) ==
    /\ pass[r].pc = "gpt"
    /\ UNCHANGED <<channel, detector, call, settings, convExists, transcripts, conn, audio, published,
                   appends, hist>>
    /\ GptDone(r, simple_split(pass[r].asr.full_text), "failed")

\* tier 1: analyze_speakers returns and the speakers are assigned
Diar1Returned(r, diar_segments) ==
    /\ pass[r].pc = "diar1"
    /\ UNCHANGED <<channel, detector, call, settings, convExists, transcripts, conn, audio, published,
                   appends, hist>>
    /\ Goto(r, BeginSave([pass[r] EXCEPT !.diar = IF diar_segments = <<>> THEN "no_turns"
                                                   ELSE "turns"],
                   assign_speakers_to_sentences(pass[r].saving, DiarSec(diar_segments)),
                   "final"))

\* a variant of the "No diarization segments returned" branch that clears the
\* recording's range before it returns
Diar2ReturnedThenDeletes(r, diar_segments) ==
    /\ pass[r].pc = "diar2"
    /\ diar_segments = <<>>
    /\ transcripts' = SeqLe(transcripts, StartSeq(r))
    /\ hist' = [hist EXCEPT ![r].deletes = @ + 1]
    /\ UNCHANGED <<channel, detector, call, settings, convExists, conn, audio, published, appends>>
    /\ Finish(r, "no_turns")

\* tier 2: analyze_speakers returns; merge, full-text fallback, coalescing
Diar2Returned(r, diar_segments) ==
    /\ pass[r].pc = "diar2"
    /\ UNCHANGED <<channel, detector, call, settings, convExists, transcripts, conn, audio, published,
                   appends, hist>>
    /\ LET merged == merge_asr_and_diarization(AsrMs(pass[r].asr.segments), diar_segments)
           merged2 == IF merged # <<>> THEN merged
                      ELSE fallback_merge_with_full_text(pass[r].asr.full_text,
                                                         diar_segments)
       IN  IF diar_segments = <<>> THEN Finish(r, "no_turns")
           ELSE IF merged2 = <<>> THEN Finish(r, "nothing_merged")
           ELSE Goto(r, BeginSave([pass[r] EXCEPT !.diar = "turns"],
                                  merge_consecutive_same_speaker(merged2), "tier2"))

\* ------------------------------------ save_formatted_sentences / tier-2 loop
\* has_timestamps = sentences and "start" in sentences[0]
HasTimestamps(sentences) == sentences # <<>> /\ "start" \in DOMAIN sentences[1]

RECURSIVE NextK(_, _, _)
\* the next position of the loop that reaches Transcript.create: the tier-1
\* loop skips a sentence whose stripped text is empty, the tier-2 loop none
NextK(sentences, k, mode) ==
    IF k > Len(sentences) THEN k
    ELSE IF mode # "tier2" /\ sentences[k].text = <<>> THEN NextK(sentences, k + 1, mode)
         ELSE k

SpeakerId(sent) ==
    IF "speaker_id" \in DOMAIN sent THEN sent.speaker_id
    ELSE IF "speaker" \in DOMAIN sent THEN "SPEAKER_" \o sent.speaker
         ELSE "SPEAKER_00"

\* a variant whose estimated window counts the rows written, not the
\* position in the list
NewRowEstimatedByRowsWritten(r, sent, k) ==
    LET p == pass[r]
        has_timestamps == HasTimestamps(p.saving)
        relative_start_ms ==
            IF p.mode = "tier2" THEN sent.start_ms
            ELSE IF has_timestamps THEN sent.start
                 ELSE Len(hist[r].written) * estimated_duration_per_sentence
        relative_end_ms ==
            IF p.mode = "tier2" THEN sent.end_ms
            ELSE IF has_timestamps THEN sent.end
                 ELSE relative_start_ms + estimated_duration_per_sentence
    IN  [seq |-> StartSeq(r) + k,
         start_ms |-> ConvStartMs + p.time_offset + relative_start_ms,
         end_ms |-> ConvStartMs + p.time_offset + relative_end_ms,
         text |-> sent.text,
         speaker_id |-> IF p.mode = "tier2" THEN sent.speaker_id ELSE SpeakerId(sent),
         origin |-> r]

\* the row Transcript.create writes for position k (seq i = start_seq + k)
NewRow(r, sent, k) ==
    LET p == pass[r]
        has_timestamps == HasTimestamps(p.saving)
        relative_start_ms ==
            IF p.mode = "tier2" THEN sent.start_ms
            ELSE IF has_timestamps THEN sent.start
                 ELSE (k - 1) * estimated_duration_per_sentence
        relative_end_ms ==
            IF p.mode = "tier2" THEN sent.end_ms
            ELSE IF has_timestamps THEN sent.end
                 ELSE relative_start_ms + estimated_duration_per_sentence
    IN  [seq |-> StartSeq(r) + k,
         start_ms |-> ConvStartMs + p.time_offset + relative_start_ms,
         end_ms |-> ConvStartMs + p.time_offset + relative_end_ms,
         text |-> sent.text,
         speaker_id |-> IF p.mode = "tier2" THEN sent.speaker_id ELSE SpeakerId(sent),
         origin |-> r]

\* An exception inside the save: the first save of tier 1 with diarization
\* runs inside "try ... except Exception as match_error", which saves the
\* formatter's sentences instead; any other save ends the pass in the outer
\* except.
Raise(r) ==
    IF pass[r].mode = "final"
    THEN Goto(r, BeginSave(pass[r], pass[r].formatted, "retry"))
    ELSE Finish(r, "error")

\* The loop is over: tier 1 goes on to pub_text, tier 2 ends the pass.
AfterSave(r, p) ==
    IF p.mode = "tier2"
    THEN Finish(r, "saved")
    ELSE Goto(r, [p EXCEPT !.pc = "notify"])

\* Transcript.filter(conversation_id=conv_id, seq__gt=start_seq).delete()
SaveDelete(r) ==
    /\ pass[r].pc = "delete"
    /\ transcripts' = SeqLe(transcripts, StartSeq(r))
    /\ hist' = [hist EXCEPT ![r].deletes = @ + 1]
    /\ UNCHANGED <<channel, detector, call, settings, convExists, conn, audio, published, appends>>
    /\ Goto(r, [pass[r] EXCEPT !.pc = "offset",
                                !.removed = Count(SeqGt(transcripts, StartSeq(r)))])

\* Conversation.get (DoesNotExist when the conversation is gone), the
\* time_offset query, and the loop up to its first Transcript.create
SaveOffset(r, end_ms) ==
    /\ pass[r].pc = "offset"
    /\ UNCHANGED <<channel, detector, call, settings, convExists, transcripts, conn, audio, published,
                   appends, hist>>
    /\ IF ~convExists
       THEN end_ms = None /\ Raise(r)
       ELSE /\ end_ms \in LatestEndMs(transcripts)
            /\ LET k == NextK(pass[r].saving, 1, pass[r].mode)
                   p == [pass[r] EXCEPT !.time_offset = TimeOffset(end_ms), !.k = k]
               IN  IF k > Len(p.saving)
                   THEN AfterSave(r, p)
                   ELSE Goto(r, [p EXCEPT !.pc = "insert"])

\* a variant of the insert that does not need the conversation's row
SaveCreateWithoutConversation(r) ==
    /\ pass[r].pc = "insert"
    /\ UNCHANGED <<channel, detector, call, settings, convExists, conn, audio, published, appends>>
    /\ LET row == NewRow(r, pass[r].saving[pass[r].k], pass[r].k)
           k == NextK(pass[r].saving, pass[r].k + 1, pass[r].mode)
           p == [pass[r] EXCEPT !.k = k]
       IN  /\ transcripts' = Append(transcripts, row)
           /\ hist' = [hist EXCEPT ![r].written = Append(@, row.seq)]
           /\ IF k > Len(p.saving)
              THEN AfterSave(r, p)
              ELSE Goto(r, p)

\* one Transcript.create (a foreign-key error when the conversation is gone)
\* and the loop up to the next one
SaveCreate(r) ==
    /\ pass[r].pc = "insert"
    /\ UNCHANGED <<channel, detector, call, settings, convExists, conn, audio, published, appends>>
    /\ IF ~convExists
       THEN /\ UNCHANGED <<transcripts, hist>>
            /\ Raise(r)
       ELSE LET row == NewRow(r, pass[r].saving[pass[r].k], pass[r].k)
                k == NextK(pass[r].saving, pass[r].k + 1, pass[r].mode)
                p == [pass[r] EXCEPT !.k = k]
            IN  /\ transcripts' = Append(transcripts, row)
                /\ hist' = [hist EXCEPT ![r].written = Append(@, row.seq)]
                /\ IF k > Len(p.saving)
                   THEN AfterSave(r, p)
                   ELSE Goto(r, p)

\* channel.pub_text(conv_id, {"type": "transcripts_updated", "count": ...}),
\* then return and the finally block
Notify(r) ==
    /\ pass[r].pc = "notify"
    /\ published' = Append(published, [type |-> "transcripts_updated",
                                       count |-> Len(pass[r].formatted), by |-> r])
    /\ hist' = [hist EXCEPT ![r].notified = @ + 1]
    /\ UNCHANGED <<channel, detector, call, settings, convExists, transcripts, conn, audio, appends>>
    /\ Finish(r, "saved")

\* ------------------------------------------------------- conversations.py
AppendTimes == {<<None, None>>, <<ConvStartMs, ConvStartMs + SegMs>>}

\* POST /conversations/{cid}/segments
append_segment(startMs, endMs) ==
    /\ convExists
    /\ appends < MaxAppend
    /\ appends' = appends + 1
    /\ transcripts' = Append(transcripts,
           [seq |-> Count(transcripts) + 1, start_ms |-> startMs, end_ms |-> endMs,
            text |-> <<9>>, speaker_id |-> "NULL", origin |-> 0])
    /\ UNCHANGED <<channel, detector, call, settings, convExists, sessions, sesObj, conn, audio, pass,
                   published, hist>>

\* a pass in the middle of its replace: it has removed or created a row and
\* still has a row to create
MidPersist(r) ==
    /\ pass[r].pc \in {"offset", "insert"}
    /\ pass[r].removed > 0 \/ pass[r].k > NextK(pass[r].saving, 1, pass[r].mode)
    /\ NextK(pass[r].saving, Max2(pass[r].k, 1), pass[r].mode) <= Len(pass[r].saving)

\* GET /conversations/{cid} (404 when the conversation is gone): the response
\* carries the rows as they are now; nothing is written
get_conversation_detail ==
    /\ convExists
    /\ UNCHANGED vars

\* DELETE /conversations/{cid}: the transcripts, then the conversation
delete_conversation ==
    /\ convExists
    /\ convExists' = FALSE
    /\ transcripts' = <<>>
    /\ UNCHANGED <<channel, detector, call, settings, sessions, sesObj, conn, audio, pass, published,
                   appends, hist>>

\* ------------------------------------------------------------------- Next
Next ==
    \/ \E r \in Recs : Start(r)
    \/ \E r \in Recs : RecvAudio(r)
    \/ \E r \in Recs : \E webspeech \in BOOLEAN : Stop(r, webspeech)
    \/ \E r \in Recs : StopPublished(r)
    \/ \E r \in Recs : Disconnect(r)
    \/ \E r \in Recs : PassBegin(r)
    \/ \E r \in Recs : AsrFailed(r)
    \/ \E r \in Recs : \E res \in AsrResults : AsrReturned(r, res)
    \/ \E r \in Recs : \E sentences \in FormatterOutputs : GptReturned(r, sentences)
    \/ \E r \in Recs : GptFailed(r)
    \/ \E r \in Recs : \E diar_segments \in DiarOutputs : Diar1Returned(r, diar_segments)
    \/ \E r \in Recs : \E diar_segments \in DiarOutputs : Diar2Returned(r, diar_segments)
    \/ \E r \in Recs : SaveDelete(r)
    \/ \E r \in Recs : \E end_ms \in LatestEndMs(transcripts) \cup {None} : SaveOffset(r, end_ms)
    \/ \E r \in Recs : SaveCreate(r)
    \/ \E r \in Recs : Notify(r)
    \/ \E t \in AppendTimes : append_segment(t[1], t[2])
    \/ get_conversation_detail
    \/ delete_conversation

Spec == Init /\ [][Next]_vars

\* ------------------------------------------- one pass over a longer answer
\* A single recording without concurrent requests, its collaborators
\* answering with two raw segments and sentences of up to three words.
LongSegments ==
    <<[text |-> <<9, Dot>>, start |-> 0, end |-> SegMs],
      [text |-> <<3, Dot>>, start |-> SegMs, end |-> 2 * SegMs]>>
LongAsrResults ==
    {[full_text |-> FullText(SubSeq(LongSegments, 1, n)),
      segments |-> SubSeq(LongSegments, 1, n)] : n \in 1..2}
LongFormatterOutputs ==
    {<<[text |-> <<9, Dot>>, speaker |-> "A"], [text |-> <<3, Dot>>, speaker |-> "B"]>>,
     <<[text |-> <<2, 3, 4>>, speaker |-> "A"], [text |-> <<9, Dot>>, speaker |-> "B"]>>}
LongDiarOutputs == {DiarTurns(n) : n \in 0..2}

PassNext ==
    \/ Start(1)
    \/ RecvAudio(1)
    \/ \E webspeech \in BOOLEAN : Stop(1, webspeech)
    \/ StopPublished(1)
    \/ PassBegin(1)
    \/ AsrFailed(1)
    \/ \E res \in LongAsrResults : AsrReturned(1, res)
    \/ \E sentences \in LongFormatterOutputs : GptReturned(1, sentences)
    \/ GptFailed(1)
    \/ \E diar_segments \in LongDiarOutputs : Diar1Returned(1, diar_segments)
    \/ \E diar_segments \in LongDiarOutputs : Diar2Returned(1, diar_segments)
    \/ SaveDelete(1)
    \/ \E end_ms \in LatestEndMs(transcripts) \cup {None} : SaveOffset(1, end_ms)
    \/ SaveCreate(1)
    \/ Notify(1)

PassSpec == Init /\ [][PassNext]_vars

\* ------------------------------------------ recordings one after the other
\* The conversation used by one client at a time: a recording starts when
\* the recordings before it are over and their passes have ended, and a live
\* segment is appended while no stop message is being handled and no pass is
\* running.
Over(q) ==
    /\ conn[q] \in {"closed", "disconnected", "error"}
    /\ pass[q].pc \in {"none", "done"}
    /\ conn[q] = "closed" => pass[q].pc = "done"

PassRunning ==
    \E q \in Recs : conn[q] = "publishing" \/ pass[q].pc \notin {"none", "done"}

SeqStart(r) ==
    /\ \A q \in 1..(r - 1) : Over(q)
    /\ Start(r)

SeqAppend(startMs, endMs) ==
    /\ ~PassRunning
    /\ append_segment(startMs, endMs)

SeqNext ==
    \/ \E r \in Recs : SeqStart(r)
    \/ \E r \in Recs : RecvAudio(r)
    \/ \E r \in Recs : \E webspeech \in BOOLEAN : Stop(r, webspeech)
    \/ \E r \in Recs : StopPublished(r)
    \/ \E r \in Recs : Disconnect(r)
    \/ \E r \in Recs : PassBegin(r)
    \/ \E r \in Recs : AsrFailed(r)
    \/ \E r \in Recs : \E res \in AsrResults : AsrReturned(r, res)
    \/ \E r \in Recs : \E sentences \in FormatterOutputs : GptReturned(r, sentences)
    \/ \E r \in Recs : GptFailed(r)
    \/ \E r \in Recs : \E diar_segments \in DiarOutputs : Diar1Returned(r, diar_segments)
    \/ \E r \in Recs : \E diar_segments \in DiarOutputs : Diar2Returned(r, diar_segments)
    \/ \E r \in Recs : SaveDelete(r)
    \/ \E r \in Recs : \E end_ms \in LatestEndMs(transcripts) \cup {None} : SaveOffset(r, end_ms)
    \/ \E r \in Recs : SaveCreate(r)
    \/ \E r \in Recs : Notify(r)
    \/ \E t \in AppendTimes : SeqAppend(t[1], t[2])

SeqSpec == Init /\ [][SeqNext]_vars

\* a step of the server for recording r: the handling of the stop message or
\* a step of the pass, which the event loop runs as soon as the awaited call
\* is over
ServerStep(r) ==
    \/ StopPublished(r)
    \/ PassBegin(r)
    \/ AsrFailed(r)
    \/ \E res \in AsrResults : AsrReturned(r, res)
    \/ \E sentences \in FormatterOutputs : GptReturned(r, sentences)
    \/ GptFailed(r)
    \/ \E diar_segments \in DiarOutputs : Diar1Returned(r, diar_segments)
    \/ \E diar_segments \in DiarOutputs : Diar2Returned(r, diar_segments)
    \/ SaveDelete(r)
    \/ \E end_ms \in LatestEndMs(transcripts) \cup {None} : SaveOffset(r, end_ms)
    \/ SaveCreate(r)
    \/ Notify(r)

\* the connection of recording r ends: a stop message or a disconnect
ConnectionEnds(r) ==
    \/ \E webspeech \in BOOLEAN : Stop(r, webspeech)
    \/ Disconnect(r)

\* every call the server awaits returns or raises, and every connection ends
LiveSpec ==
    /\ SeqSpec
    /\ \A r \in Recs : WF_vars(ServerStep(r))
    /\ \A r \in Recs : WF_vars(ConnectionEnds(r))

\* ------------------------------- the matcher and merge functions by call
\* One call of align_sentences_with_whisper, assign_speakers_to_sentences or
\* merge_consecutive_same_speaker, on arguments drawn from bounded sets.
FnMaxSent == 2     \* sentences of a call
FnMaxSeg == 2      \* raw segments of an align call
FnMaxTurn == 2     \* diarization turns of an assign call
FnMaxMerge == 3    \* segments of a merge call
FnMaxWord == 4     \* words of the full text of a fallback call

\* formatter sentences: blank, punctuation only, one word, three words
SentTexts == {<<>>, <<Dot>>, <<9, Dot>>, <<3>>, <<2, 3, 4>>}
\* raw segments: blank, punctuation only, one word
SegTexts == {<<>>, <<Dot>>, <<9>>, <<3>>}

\* the formatter's sentence lists, the labels alternating
AlignSentences ==
    UNION {{[i \in 1..n |-> [text |-> t[i], speaker |-> IF i % 2 = 1 THEN "A" ELSE "B"]] :
               t \in [1..n -> SentTexts]} : n \in 0..FnMaxSent}

\* raw segments one after the other, SegMs each
AlignSegments ==
    UNION {{[i \in 1..n |-> [text |-> t[i], start |-> (i - 1) * SegMs, end |-> i * SegMs]] :
               t \in [1..n -> SegTexts]} : n \in 0..FnMaxSeg}

\* sentence intervals: a segment long, shorter than 0.1 s, empty, across
\* two segments, far from the others
SentSpans == {<<0, SegMs>>, <<0, 50>>, <<500, 500>>, <<SegMs, 2500>>, <<5000, 6000>>}
TurnSpans == {<<0, SegMs>>, <<0, 2000>>, <<2000, 3000>>, <<950, 3000>>}
Speakers == {"SPEAKER_00", "SPEAKER_01"}

AssignSentences ==
    UNION {{[i \in 1..n |-> [start |-> sp[i][1], end |-> sp[i][2], text |-> <<i>>,
                             gpt_speaker |-> "A"]] :
               sp \in [1..n -> SentSpans]} : n \in 0..FnMaxSent}

AssignTurns ==
    UNION {{[i \in 1..n |-> [start |-> t[i][1][1], end |-> t[i][1][2],
                             speaker_id |-> t[i][2]]] :
               t \in [1..n -> TurnSpans \X Speakers]} : n \in 0..FnMaxTurn}

\* segments to coalesce: in any order, overlapping or apart, the gap exactly
\* MAX_GAP_MS (2000 to 4000) and one above it (5000 to 7001), the text
\* possibly blank; the word of segment i is i
MergeSpans == {<<0, 10000>>, <<1000, 2000>>, <<4000, 5000>>, <<7001, 8000>>}
MergeChoices == Speakers \X MergeSpans \X BOOLEAN
MergeSegments(g) ==
    [i \in DOMAIN g |-> [speaker_id |-> g[i][1], start_ms |-> g[i][2][1],
                         end_ms |-> g[i][2][2],
                         text |-> IF g[i][3] THEN <<i>> ELSE <<>>]]

\* the full text of n words, and diarization turns as ws_upload.py builds
\* them (start_ms, end_ms): one and two seconds long, and an empty one
FullTextOf(n) == [i \in 1..n |-> i]
DiarSpans == {<<0, 1000>>, <<1000, 3000>>, <<3000, 3000>>}
DiarChoices == Speakers \X DiarSpans
DiarSegments(g) ==
    [i \in DOMAIN g |-> [speaker_id |-> g[i][1], start_ms |-> g[i][2][1],
                         end_ms |-> g[i][2][2]]]

\* ASR segments of a merge_asr_and_diarization call: segment i says the word
\* i; one second long, two seconds long, without duration
OverlapSegSpans == {<<0, 1000>>, <<1000, 2000>>, <<0, 2000>>, <<500, 500>>}
OverlapSegments(g) ==
    [i \in DOMAIN g |-> [text |-> <<i>>, start_ms |-> g[i][1], end_ms |-> g[i][2]]]
\* its diarization turns: halves of the first second, 45 % of it and a
\* millisecond less, the first and the second second
OverlapTurnSpans ==
    {<<0, 500>>, <<500, 1000>>, <<0, 450>>, <<0, 449>>, <<0, 1000>>, <<1000, 2000>>}
OverlapTurnChoices == Speakers \X OverlapTurnSpans

Called(fn, args) == [fn |-> fn, args |-> args, out |-> <<>>, pc |-> "called"]

\* the calls followed: call is one of them
Calls ==
    \/ \E ss \in AlignSentences : \E segs \in AlignSegments :
          call = Called("align", <<ss, segs>>)
    \/ \E ss \in AssignSentences : \E ts \in AssignTurns :
          call = Called("assign", <<ss, ts>>)
    \/ \E n \in 0..FnMaxMerge : \E g \in [1..n -> MergeChoices] :
          call = Called("merge", <<MergeSegments(g)>>)
    \/ \E w \in 0..FnMaxWord : \E n \in 0..FnMaxTurn : \E g \in [1..n -> DiarChoices] :
          call = Called("fallback", <<FullTextOf(w), DiarSegments(g)>>)
    \/ \E n \in 0..FnMaxSeg : \E a \in [1..n -> OverlapSegSpans] :
       \E m \in 0..FnMaxTurn : \E g \in [1..m -> OverlapTurnChoices] :
          call = Called("overlap", <<OverlapSegments(a), DiarSegments(g)>>)

FnInit ==
    /\ settings = [enable_gpt_formatting |-> TRUE, api_key |-> TRUE,
                   enable_diarization |-> TRUE, diar_available |-> TRUE]
    /\ convExists = TRUE
    /\ transcripts = <<>>
    /\ sessions = NoSes
    /\ sesObj = [r \in Recs |-> FreshSes]
    /\ conn = [r \in Recs |-> "idle"]
    /\ audio = [r \in Recs |-> FALSE]
    /\ pass = [r \in Recs |-> IdlePass]
    /\ published = <<>>
    /\ appends = 0
    /\ hist = [r \in Recs |-> NoHist]
    /\ Calls
    /\ channel = NoChannel
    /\ detector = NoDetector

\* the call returns f(args)
Returns(fn, out) ==
    /\ call.fn = fn
    /\ call.pc = "called"
    /\ call' = [call EXCEPT !.out = out, !.pc = "returned"]
    /\ UNCHANGED <<channel, detector, settings, convExists, transcripts, sessions,
                   sesObj, conn, audio, pass, published, appends, hist>>

AlignReturns ==
    /\ call.fn = "align"
    /\ Returns("align", align_sentences_with_whisper(call.args[1], call.args[2]))

AssignReturns ==
    /\ call.fn = "assign"
    /\ Returns("assign", assign_speakers_to_sentences(call.args[1], call.args[2]))

MergeReturns ==
    /\ call.fn = "merge"
    /\ Returns("merge", merge_consecutive_same_speaker(call.args[1]))

FallbackReturns ==
    /\ call.fn = "fallback"
    /\ Returns("fallback", fallback_merge_with_full_text(call.args[1], call.args[2]))

OverlapReturns ==
    /\ call.fn = "overlap"
    /\ Returns("overlap", merge_asr_and_diarization(call.args[1], call.args[2]))

\* merge_consecutive_same_speaker is called again, on what it returned
MergeAgain ==
    /\ call.fn = "merge"
    /\ call.pc = "returned"
    /\ call' = [call EXCEPT !.args = <<call.out>>,
                            !.out = merge_consecutive_same_speaker(call.out),
                            !.pc = "reapplied"]
    /\ UNCHANGED <<channel, detector, settings, convExists, transcripts, sessions,
                   sesObj, conn, audio, pass, published, appends, hist>>

FnNext ==
    \/ AlignReturns
    \/ AssignReturns
    \/ MergeReturns
    \/ MergeAgain
    \/ FallbackReturns
    \/ OverlapReturns

FnSpec == FnInit /\ [][FnNext]_vars

\* ------------------------------------------------------------- pubsub.py
\* The Channel by itself: websockets subscribe and unsubscribe, publishes
\* run one send per await, so that publishes and subscriptions interleave.
MaxWs == 2         \* websockets
MaxPub == 2        \* publishes
MaxSub == 3        \* subscribe and unsubscribe calls

Ws == 1..MaxWs
Convs == {"conv-1", "conv-2"}
Topics == {"text", "tts"}

\* the reconciliation's variables, which the channel and the detector by
\* themselves leave alone
passVars == <<settings, convExists, transcripts, sessions, sesObj, conn, audio, pass,
              published, appends, hist, call>>

\* no recording, no pass, no function call
Quiet ==
    /\ settings = [enable_gpt_formatting |-> TRUE, api_key |-> TRUE,
                   enable_diarization |-> TRUE, diar_available |-> TRUE]
    /\ convExists = TRUE
    /\ transcripts = <<>>
    /\ sessions = NoSes
    /\ sesObj = [r \in Recs |-> FreshSes]
    /\ conn = [r \in Recs |-> "idle"]
    /\ audio = [r \in Recs |-> FALSE]
    /\ pass = [r \in Recs |-> IdlePass]
    /\ published = <<>>
    /\ appends = 0
    /\ hist = [r \in Recs |-> NoHist]
    /\ call = NoCall

\* Channel(): topics is _topics with a missing conversation as the empty
\* set; pubs are the publishes in the order of their calls; sent[ws] is what
\* has been sent on ws, <<publish, "text" or "bytes">>; ops counts the
\* subscribe and unsubscribe calls.
NewChannel ==
    [pc |-> "on", topics |-> [t \in Topics |-> [c \in Convs |-> {}]], pubs |-> <<>>,
     sent |-> [ws \in Ws |-> <<>>], ops |-> 0]

PubInit ==
    /\ Quiet
    /\ detector = NoDetector
    /\ channel = NewChannel

\* self._topics[topic].setdefault(conv_id, set()).add(ws)
Sub(topic, conv_id, ws) ==
    /\ channel.ops < MaxSub
    /\ channel' = [channel EXCEPT !.topics[topic][conv_id] = @ \cup {ws}, !.ops = @ + 1]
    /\ UNCHANGED <<passVars, detector>>

\* self._topics[topic].get(conv_id, set()).discard(ws)
Unsub(topic, conv_id, ws) ==
    /\ channel.ops < MaxSub
    /\ channel' = [channel EXCEPT !.topics[topic][conv_id] = @ \ {ws}, !.ops = @ + 1]
    /\ UNCHANGED <<passVars, detector>>

sub_text(conv_id, ws) ==
    /\ channel.pc = "on"
    /\ Sub("text", conv_id, ws)

unsub_text(conv_id, ws) ==
    /\ channel.pc = "on"
    /\ Unsub("text", conv_id, ws)

sub_tts(conv_id, ws) ==
    /\ channel.pc = "on"
    /\ Sub("tts", conv_id, ws)

unsub_tts(conv_id, ws) ==
    /\ channel.pc = "on"
    /\ Unsub("tts", conv_id, ws)

\* list(s) of a set s: its elements in some order
Orders(s) ==
    {f \in [1..Cardinality(s) -> s] : \A i, j \in 1..Cardinality(s) : i # j => f[i] # f[j]}

\* a variant that takes the subscribers of every conversation
ConnsOfEveryConversation(topic, conv_id) ==
    UNION {channel.topics[topic][c] : c \in Convs}

\* self._topics[topic].get(conv_id, set())
Conns(topic, conv_id) == channel.topics[topic][conv_id]

\* A publish is called: conns = list(...), the message is serialized, and
\* the loop runs up to its first send.  at, after, tried and failed are
\* history: the subscribers at the call, the publishes that had returned by
\* then, the websockets tried so far and those whose send raised.
Publish(fn, topic, how, conv_id) ==
    /\ Len(channel.pubs) < MaxPub
    /\ \E conns \in Orders(Conns(topic, conv_id)) :
          channel' = [channel EXCEPT !.pubs = Append(@,
              [fn |-> fn, conv_id |-> conv_id, how |-> how, conns |-> conns,
               pc |-> IF conns = <<>> THEN "returned" ELSE "sending",
               at |-> {ws \in Ws : ws \in channel.topics[topic][conv_id]},
               after |-> {i \in 1..Len(channel.pubs) : channel.pubs[i].pc = "returned"},
               tried |-> <<>>, failed |-> {}])]
    /\ UNCHANGED <<passVars, detector>>

pub_text(conv_id) ==
    /\ channel.pc = "on"
    /\ Publish("pub_text", "text", "text", conv_id)

pub_tts_json(conv_id) ==
    /\ channel.pc = "on"
    /\ Publish("pub_tts_json", "tts", "text", conv_id)

pub_tts_bytes(conv_id) ==
    /\ channel.pc = "on"
    /\ Publish("pub_tts_bytes", "tts", "bytes", conv_id)

\* the publish after one round of its loop
Looped(p, ws) ==
    [p EXCEPT !.conns = Tail(@), !.tried = Append(@, ws),
              !.pc = IF Tail(p.conns) = <<>> THEN "returned" ELSE "sending"]

\* await s.send_text(msg) / s.send_bytes(chunk) returns
SendReturns(i) ==
    /\ channel.pc = "on"
    /\ i \in 1..Len(channel.pubs)
    /\ channel.pubs[i].pc = "sending"
    /\ LET p == channel.pubs[i]
           s == Head(p.conns)
       IN  channel' = [channel EXCEPT !.pubs[i] = Looped(p, s),
                                      !.sent[s] = Append(@, <<i, p.how>>)]
    /\ UNCHANGED <<passVars, detector>>

\* a variant in which the exception of a send ends the publish
SendRaisesAndPropagates(i) ==
    /\ channel.pc = "on"
    /\ i \in 1..Len(channel.pubs)
    /\ channel.pubs[i].pc = "sending"
    /\ LET p == channel.pubs[i]
           s == Head(p.conns)
       IN  channel' = [channel EXCEPT !.pubs[i] =
                          [p EXCEPT !.conns = <<>>, !.tried = Append(@, s),
                                    !.failed = @ \cup {s}, !.pc = "returned"]]
    /\ UNCHANGED <<passVars, detector>>

\* the send raises: "except Exception: pass", and the loop goes on
SendRaises(i) ==
    /\ channel.pc = "on"
    /\ i \in 1..Len(channel.pubs)
    /\ channel.pubs[i].pc = "sending"
    /\ LET p == channel.pubs[i]
           s == Head(p.conns)
       IN  channel' = [channel EXCEPT !.pubs[i] = [Looped(p, s) EXCEPT !.failed = @ \cup {s}]]
    /\ UNCHANGED <<passVars, detector>>

PubNext ==
    \/ \E conv_id \in Convs : \E ws \in Ws : sub_text(conv_id, ws)
    \/ \E conv_id \in Convs : \E ws \in Ws : unsub_text(conv_id, ws)
    \/ \E conv_id \in Convs : \E ws \in Ws : sub_tts(conv_id, ws)
    \/ \E conv_id \in Convs : \E ws \in Ws : unsub_tts(conv_id, ws)
    \/ \E conv_id \in Convs : pub_text(conv_id)
    \/ \E conv_id \in Convs : pub_tts_json(conv_id)
    \/ \E conv_id \in Convs : pub_tts_bytes(conv_id)
    \/ \E i \in 1..MaxPub : SendReturns(i)
    \/ \E i \in 1..MaxPub : SendRaises(i)

PubSpec == PubInit /\ [][PubNext]_vars

\* ------------------------------------------------- ws_text.py, ws_tts.py
\* The two subscriber endpoints over the Channel: a websocket is accepted by
\* /ws/asr-text ("text") or /ws/tts-audio ("tts"), sends subscribe (start)
\* messages and closes.  conv_id is the handler's local variable, NoConv
\* while it is None.
NoConv == "-"
IdleHandler == [state |-> "idle", topic |-> "-", conv_id |-> NoConv]

WsInit ==
    /\ Quiet
    /\ detector = NoDetector
    /\ channel = [pc |-> "ws", topics |-> [t \in Topics |-> [c \in Convs |-> {}]],
                  ops |-> 0, handlers |-> [ws \in Ws |-> IdleHandler]]

\* await ws.accept(); conv_id = None
ws_accept(ws, topic) ==
    /\ channel.pc = "ws"
    /\ channel.handlers[ws].state = "idle"
    /\ channel' = [channel EXCEPT !.handlers[ws] =
                      [state |-> "open", topic |-> topic, conv_id |-> NoConv]]
    /\ UNCHANGED <<passVars, detector>>

\* a subscribe (start) message: conv_id = msg.get("conversationId") and
\* channel.sub_text (sub_tts) of it
Subscribes(ws, topic, conv_id) ==
    /\ channel.handlers[ws].state = "open"
    /\ channel.handlers[ws].topic = topic
    /\ channel.ops < MaxSub
    /\ channel' = [channel EXCEPT !.handlers[ws].conv_id = conv_id,
                                  !.topics[topic][conv_id] = @ \cup {ws},
                                  !.ops = @ + 1]
    /\ UNCHANGED <<passVars, detector>>

ws_asr_text(ws, conv_id) ==
    /\ channel.pc = "ws"
    /\ Subscribes(ws, "text", conv_id)

ws_tts(ws, conv_id) ==
    /\ channel.pc = "ws"
    /\ Subscribes(ws, "tts", conv_id)

\* WebSocketDisconnect, or another exception in the loop: unsub_text
\* (unsub_tts) of conv_id if it is set
ws_closes(ws) ==
    /\ channel.pc = "ws"
    /\ channel.handlers[ws].state = "open"
    /\ LET h == channel.handlers[ws]
       IN  channel' = [channel EXCEPT
                !.handlers[ws].state = "closed",
                !.topics = IF h.conv_id = NoConv THEN @
                           ELSE [@ EXCEPT ![h.topic][h.conv_id] = @ \ {ws}]]
    /\ UNCHANGED <<passVars, detector>>

WsNext ==
    \/ \E ws \in Ws : \E topic \in Topics : ws_accept(ws, topic)
    \/ \E ws \in Ws : \E conv_id \in Convs : ws_asr_text(ws, conv_id)
    \/ \E ws \in Ws : \E conv_id \in Convs : ws_tts(ws, conv_id)
    \/ \E ws \in Ws : ws_closes(ws)

WsSpec == WsInit /\ [][WsNext]_vars

\* ------------------------------------------- hallucination_detector.py
\* The detector by itself: detect_from_whisper is called on one text after
\* the other, and reset_history between sessions.  A text is the sequence of
\* its whitespace-separated tokens as above; the words 1..5, 8 and 9 have five
\* letters, 6 is one letter seven times, 7 has two letters.
max_history == 5
GateMaxSeg == 1    \* segments of a call

TokenLen(t) == IF t = Dot THEN 1 ELSE IF t = 7 THEN 2 ELSE IF t = 6 THEN 7 ELSE 5

RECURSIVE SumTokenLen(_)
SumTokenLen(text) ==
    IF text = <<>> THEN 0 ELSE TokenLen(Head(text)) + SumTokenLen(Tail(text))

\* len(text.strip()): the tokens and one blank between two of them
StripLen(text) == IF text = <<>> THEN 0 ELSE SumTokenLen(text) + Len(text) - 1

\* the texts of the calls: blank, two letters, punctuation only, a word four
\* times, a long sentence, one that shares a word with it, one that shares
\* none, a sentence said twice, a run of one letter
GateTexts ==
    {<<>>, <<7>>, <<Dot>>, <<1, 1, 1, 1>>, <<1, 2, 3, 4>>, <<1, 5>>, <<8, 9>>,
     <<1, 2, Dot, 1, 2, Dot>>, <<6>>}

\* a segment: avg_logprob in hundredths, start and end in milliseconds
GateSegChoices ==
    {[avg_logprob |-> -90, start |-> 0, end |-> 1000],
     [avg_logprob |-> -55, start |-> 0, end |-> 1000],
     [avg_logprob |-> -20, start |-> 0, end |-> 1000],
     [avg_logprob |-> -20, start |-> 0, end |-> 10000]}

Verdict(is_hallucination, reason, confidence) ==
    [is_hallucination |-> is_hallucination, reason |-> reason, confidence |-> confidence]

\* max(0, min(1, avg_logprob + 1.0)), in hundredths
SegConfidence(seg) == Max2(0, Min2(100, seg.avg_logprob + 100))

RECURSIVE SumConfidence(_)
SumConfidence(segments) ==
    IF segments = <<>> THEN 0
    ELSE SegConfidence(Head(segments)) + SumConfidence(Tail(segments))

RECURSIVE SumPositiveDurations(_)
SumPositiveDurations(segments) ==
    IF segments = <<>> THEN 0
    ELSE (IF Head(segments).end - Head(segments).start > 0
          THEN Head(segments).end - Head(segments).start ELSE 0)
         + SumPositiveDurations(Tail(segments))

\* _check_whisper_confidence; a confidence is the fraction <<n, d>>
check_whisper_confidence(text, segments) ==
    IF segments = <<>> THEN Verdict(FALSE, "no_segments", <<70, 100>>)
    ELSE LET n == Len(segments)
             total == SumConfidence(segments)
             avg_confidence == <<total, 100 * n>>
             low_confidence_count ==
                 Cardinality({k \in 1..n : SegConfidence(segments[k]) < 50})
             total_duration == SumPositiveDurations(segments)
             \* words_per_second < 0.5 or > 6.0, over max(total_duration, 0.1)
             speed_abnormal ==
                 /\ total_duration > 0
                 /\ \/ 2000 * Len(text) < Max2(total_duration, 100)
                    \/ 1000 * Len(text) > 6 * Max2(total_duration, 100)
         IN  IF total < 30 * n
             THEN Verdict(TRUE, "low_avg_confidence", avg_confidence)
             ELSE IF 10 * low_confidence_count > 7 * n
                  THEN Verdict(TRUE, "high_low_confidence_ratio", avg_confidence)
                  ELSE IF speed_abnormal
                       THEN Verdict(TRUE, "abnormal_speech_rate", avg_confidence)
                       ELSE Verdict(FALSE, "valid_confidence", avg_confidence)

RECURSIVE MaxWordRepeat(_, _, _, _)
\* the loop over range(1, len(words)): i is 0-based
MaxWordRepeat(words, i, current_repeat, max_word_repeat) ==
    IF i >= Len(words) THEN max_word_repeat
    ELSE IF words[i + 1] = words[i]
         THEN MaxWordRepeat(words, i + 1, current_repeat + 1,
                            Max2(max_word_repeat, current_repeat + 1))
         ELSE MaxWordRepeat(words, i + 1, 1, max_word_repeat)

RECURSIVE CountPhrase(_, _, _)
\* str.count: the occurrences from position i (1-based) on, not overlapping
CountPhrase(words, phrase, i) ==
    IF i + Len(phrase) - 1 > Len(words) THEN 0
    ELSE IF SubSeq(words, i, i + Len(phrase) - 1) = phrase
         THEN 1 + CountPhrase(words, phrase, i + Len(phrase))
         ELSE CountPhrase(words, phrase, i + 1)

\* a phrase of 2 to 5 words that comes again after itself and 3 times in all
PhraseRepeated(words) ==
    \E phrase_len \in 2..5 :
        /\ Len(words) >= phrase_len * 2
        /\ \E i \in 0..(Len(words) - phrase_len * 2) :
              /\ CountPhrase(SubSeq(words, i + phrase_len + 1, Len(words)),
                             SubSeq(words, i + 1, i + phrase_len), 1) > 0
              /\ CountPhrase(words, SubSeq(words, i + 1, i + phrase_len), 1) >= 3

\* a sentence of more than 10 characters met before among the sentences
SentenceRepeated(text) ==
    LET sentences == SplitOnDot(text, <<>>)
    IN  /\ Len(sentences) >= 2
        /\ \E i, j \in 1..Len(sentences) :
              i < j /\ sentences[i] = sentences[j] /\ StripLen(sentences[j]) > 10

\* _check_repetition
check_repetition(text) ==
    IF Len(text) < 2 THEN Verdict(FALSE, "too_short", <<70, 100>>)
    ELSE IF MaxWordRepeat(text, 1, 1, 0) >= 4 THEN Verdict(TRUE, "repeated_word", <<30, 100>>)
    ELSE IF PhraseRepeated(text) THEN Verdict(TRUE, "repeated_phrase", <<40, 100>>)
    ELSE IF SentenceRepeated(text) THEN Verdict(TRUE, "repeated_sentence", <<40, 100>>)
    ELSE Verdict(FALSE, "no_repetition", <<80, 100>>)

\* extract_keywords: the words of more than two letters (no word here is a
\* stopword)
extract_keywords(t) == {t[k] : k \in {x \in 1..Len(t) : t[x] # Dot /\ TokenLen(t[x]) > 2}}

\* self.history_texts[-3:]
Recent(history_texts) ==
    SubSeq(history_texts, Max2(1, Len(history_texts) - 2), Len(history_texts))

\* max(overlaps) < 0.05, overlaps being taken with the recent texts that
\* have keywords; FALSE when there is none
OverlapBelow(text, recent_texts) ==
    /\ \E k \in 1..Len(recent_texts) : extract_keywords(recent_texts[k]) # {}
    /\ \A k \in 1..Len(recent_texts) :
          extract_keywords(recent_texts[k]) # {}
             => 100 * Cardinality(extract_keywords(text) \cap extract_keywords(recent_texts[k]))
                   < 5 * Max2(Cardinality(extract_keywords(text)), 1)

\* history_texts.append(text), and pop(0) above max_history
Remember(history_texts, text) ==
    IF Len(history_texts) + 1 > max_history
    THEN Tail(Append(history_texts, text))
    ELSE Append(history_texts, text)

\* _check_semantic_coherence: the verdict and the history it leaves
check_semantic_coherence(history_texts, text) ==
    IF history_texts = <<>>
    THEN [verdict |-> Verdict(FALSE, "no_history", <<70, 100>>), history_texts |-> <<text>>]
    ELSE IF Len(history_texts) >= 2 /\ OverlapBelow(text, Recent(history_texts))
    THEN [verdict |-> Verdict(TRUE, "topic_shift", <<50, 100>>),
          history_texts |-> history_texts]
    ELSE IF /\ StripLen(text) > 20
            /\ \E k \in 1..Len(Recent(history_texts)) : Recent(history_texts)[k] = text
    THEN [verdict |-> Verdict(TRUE, "duplicate_across_transcripts", <<40, 100>>),
          history_texts |-> history_texts]
    ELSE [verdict |-> Verdict(FALSE, "coherent", <<80, 100>>),
          history_texts |-> Remember(history_texts, text)]

\* _check_suspicious_patterns
check_suspicious_patterns(text) ==
    IF text # <<>> /\ \A k \in 1..Len(text) : text[k] = Dot
    THEN Verdict(TRUE, "only_punctuation", <<0, 100>>)
    ELSE IF \E k \in 1..Len(text) : text[k] = 6
    THEN Verdict(TRUE, "repeated_characters", <<20, 100>>)
    ELSE IF StripLen(text) < 3
    THEN Verdict(TRUE, "text_too_short", <<30, 100>>)
    ELSE IF 10 * Cardinality({k \in 1..Len(text) : text[k] = Dot}) > 3 * SumTokenLen(text)
    THEN Verdict(TRUE, "too_many_special_chars", <<40, 100>>)
    ELSE Verdict(FALSE, "normal_pattern", <<80, 100>>)

\* HallucinationDetector(): history_from, text, before, ran and result are
\* history: for each remembered text whether the call that remembered it
\* returned is_hallucination, and of the last call its text, the
\* history_texts it found, the checks it ran and what it returned.
NewDetector ==
    [pc |-> "on", history_texts |-> <<>>, history_from |-> <<>>, text |-> <<>>,
     before |-> <<>>, ran |-> <<>>, result |-> Verdict(FALSE, "-", <<0, 1>>)]

GateInit ==
    /\ Quiet
    /\ channel = NoChannel
    /\ detector = NewDetector

\* the call returns result after the checks ran, the history as given
GateReturns(text, ran, result, history_texts) ==
    detector' =
        [detector EXCEPT
            !.text = text, !.before = detector.history_texts, !.ran = ran,
            !.result = result, !.history_texts = history_texts,
            !.history_from =
                IF history_texts = detector.history_texts THEN @
                ELSE IF Len(@) + 1 > max_history
                     THEN Tail(Append(@, result.is_hallucination))
                     ELSE Append(@, result.is_hallucination)]

\* the last two checks of detect_from_whisper: semantic coherence, then the
\* suspicious patterns
CoherenceThenPatterns(text, confidence, coherence, patterns) ==
    IF coherence.verdict.is_hallucination
    THEN GateReturns(text, <<"empty", "confidence", "repetition", "coherence">>,
                     coherence.verdict, coherence.history_texts)
    ELSE IF patterns.is_hallucination
    THEN GateReturns(text, <<"empty", "confidence", "repetition", "coherence", "patterns">>,
                     patterns, coherence.history_texts)
    ELSE GateReturns(text, <<"empty", "confidence", "repetition", "coherence", "patterns">>,
                     Verdict(FALSE, "valid", confidence), coherence.history_texts)

\* detect_from_whisper(text, segments)
detect_from_whisper(text, segments) ==
    /\ detector.pc = "on"
    /\ UNCHANGED <<passVars, channel>>
    /\ IF text = <<>>
       THEN GateReturns(text, <<"empty">>, Verdict(TRUE, "empty_text", <<0, 100>>),
                        detector.history_texts)
       ELSE IF check_whisper_confidence(text, segments).is_hallucination
       THEN GateReturns(text, <<"empty", "confidence">>,
                        check_whisper_confidence(text, segments), detector.history_texts)
       ELSE IF check_repetition(text).is_hallucination
       THEN GateReturns(text, <<"empty", "confidence", "repetition">>,
                        check_repetition(text), detector.history_texts)
       ELSE CoherenceThenPatterns(text, check_whisper_confidence(text, segments).confidence,
                                  check_semantic_coherence(detector.history_texts, text),
                                  check_suspicious_patterns(text))

\* reset_history(): history_texts.clear()
reset_history ==
    /\ detector.pc = "on"
    /\ detector' = [detector EXCEPT !.history_texts = <<>>, !.history_from = <<>>]
    /\ UNCHANGED <<passVars, channel>>

GateNext ==
    \/ \E text \in GateTexts : \E segments \in SeqsUpTo(GateSegChoices, GateMaxSeg) :
          detect_from_whisper(text, segments)
    \/ reset_history

GateSpec == GateInit /\ [][GateNext]_vars

\* ------------------------------------------------------------ properties
\* the recording is between its start message and the end of its pass
Live(r) == conn[r] \in {"recording", "publishing"} \/ pass[r].pc \notin {"none", "done"}

\* the stop message of the recording has been received
Stopped(r) == conn[r] \in {"publishing", "closed", "error"}

\* C1: the seq values a pass writes are start_seq+1, start_seq+2, ... in
\* turn, a contiguous range without gaps or repeats, whatever the formatter
\* answered (sentences with blank text included).
C1_SeqRangeContiguous ==
    \A r \in Recs :
        Active(r) => \A i \in 1..Len(hist[r].written) :
                         hist[r].written[i] = StartSeq(r) + i

\* C2: the starting offset a start message records is the largest seq in
\* the conversation at that moment.
C2_StartSeqIsMaxSeq ==
    [][\A r \in Recs :
          conn[r] = "idle" /\ conn'[r] = "recording"
              => sesObj'[r].start_seq = MaxSeq(transcripts)]_vars

\* C3: the replace of a pass is atomic: no conversation-detail request can be
\* served in a state where a pass has removed the old rows of its range, or
\* created some of the new ones, and still has rows to create.
C3_PersistAtomic ==
    \A r \in Recs : MidPersist(r) => ~ENABLED get_conversation_detail

\* C4: when the ASR call of a pass raises, the pass ends having deleted and
\* created no row and published nothing: the step leaves the rows and the
\* topic as they were, and the pass had touched neither before.
C4_AsrFailureLeavesTranscripts ==
    [][\A r \in Recs :
          pass[r].outcome # "asr_failed" /\ pass'[r].outcome = "asr_failed"
              => /\ transcripts' = transcripts
                 /\ published' = published
                 /\ hist[r].deletes = 0 /\ hist[r].written = <<>>
                 /\ hist[r].notified = 0]_vars

\* C4, its case: a pass has ended on a raising ASR call in a conversation
\* that held rows at that moment, and the rows are still there.
C4_AsrFailedWithRows ==
    \E r \in Recs :
        /\ pass[r].outcome = "asr_failed"
        /\ hist[r].asr = "raised"
        /\ hist[r].rows > 0
        /\ Count(transcripts) >= hist[r].rows

\* C5: a pass whose ASR call returned an empty full text deletes and creates
\* no row: none of its steps changes the conversation's rows.
C5_EmptyAsrLeavesTranscripts ==
    [][\A r \in Recs :
          hist[r].asr = "empty" /\ pass'[r] # pass[r] => transcripts' = transcripts]_vars

\* C6: passes of the conversation are serialized: no two are running at the
\* same time.
C6_PassesSerialized ==
    \A r1, r2 \in Recs : Active(r1) /\ Active(r2) => r1 = r2

\* C7: from a recording's start message to the end of its pass, _sessions
\* holds a record for the conversation and that record carries the
\* recording's own starting offset.
C7_SessionRecordKept ==
    \A r \in Recs :
        Live(r) => /\ sessions # NoSes
                   /\ sesObj[sessions].start_seq = sesObj[r].start_seq

\* C8: every stop message starts a pass for its recording: once the stop
\* message is handled (the real-time call over), the recording has its pass.
C8_EveryStopStartsPass ==
    \A r \in Recs : Stopped(r) /\ conn[r] # "publishing" => pass[r].pc # "none"

\* C9: when the ASR call returned text and neither the formatter nor
\* diarization is available, the pass reaches the persistence step.
C9_SimpleSplitPersists ==
    \A r \in Recs :
        /\ pass[r].pc = "done"
        /\ hist[r].asr = "text"
        /\ ~GptAvailable
        /\ ~(settings.enable_diarization /\ DiarAvailable)
        => hist[r].deletes > 0

\* C10: every pass that completes its persistence step, in whichever tier,
\* publishes the "transcripts_updated" notification, and never before its
\* deletes and creates are over.
C10_PersistNotifies ==
    \A r \in Recs :
        /\ pass[r].outcome = "saved" => hist[r].notified = 1
        /\ hist[r].notified > 0 => pass[r].outcome = "saved"

\* the row the pass of r creates in this step (a step in which it creates one)
Creates(r) == hist'[r].written # hist[r].written
Created == transcripts'[Len(transcripts')]

\* C11: in tier 1 with diarization enabled, when the diarization service is
\* unavailable or its call returned no turns, every row the pass creates
\* carries SPEAKER_<label>, the formatter's own label of the sentence.
C11_FormatterLabelsKept ==
    [][\A r \in Recs :
          /\ pass[r].mode = "final"
          /\ pass[r].diar \in {"unavailable", "no_turns"}
          /\ Creates(r)
          => Created.speaker_id = "SPEAKER_" \o pass[r].saving[pass[r].k].gpt_speaker]_vars

\* C12: a failing formatter call does not end the pass: the pass goes on
\* with the raw ASR text split at punctuation, the labels A and B
\* alternating; every row it then creates carries the text of the sentence
\* of its position, and at the notification one row per sentence is written.
C12_FormatterFailureDegrades ==
    [][\A r \in Recs :
          /\ pass[r].pc = "gpt" => pass'[r].pc # "done"
          /\ pass[r].pc = "gpt" /\ pass'[r].gpt = "failed"
                => LET parts == SplitOnDot(pass[r].asr.full_text, <<>>)
                       f == pass'[r].formatted
                   IN  /\ Len(f) = Len(parts)
                       /\ \A i \in 1..Len(f) :
                              /\ f[i].text = parts[i]
                              /\ f[i].speaker = IF i % 2 = 1 THEN "A" ELSE "B"
          /\ pass[r].gpt = "failed" /\ Creates(r)
                => Created.text = pass[r].formatted[pass[r].k].text
          /\ pass[r].gpt = "failed" /\ pass[r].pc = "notify"
                => Len(hist[r].written) = Len(pass[r].formatted)]_vars

\* C12, its case: the formatter call of a pass failed and the pass is at
\* its notification with two rows written, one per sentence of the raw text.
C12_FailedFormatterSaved ==
    \E r \in Recs :
        /\ pass[r].gpt = "failed"
        /\ pass[r].pc = "notify"
        /\ Len(hist[r].written) = 2
        /\ Len(pass[r].formatted) = 2

\* C13: in tier 2, when the diarization service is unavailable or its call
\* returned no turns, the pass ends before the persistence step: the step
\* leaves the rows and the topic as they were, the pass has deleted and
\* created no row and published nothing, and a pass that persists in tier 2
\* has turns.
C13_Tier2DiarizationFailureAborts ==
    [][\A r \in Recs :
          /\ pass[r].outcome = "-" /\ pass'[r].outcome \in {"diar_unavailable", "no_turns"}
                => /\ transcripts' = transcripts
                   /\ published' = published
                   /\ hist'[r].deletes = 0 /\ hist'[r].written = <<>>
                   /\ hist'[r].notified = 0
          /\ pass'[r].mode = "tier2" => DiarAvailable /\ pass'[r].diar = "turns"]_vars

\* C13, its case: a tier-2 pass has ended on a diarization call without
\* turns, its ASR call having returned text, in a conversation that holds
\* rows.
C13_Tier2AbortedWithRows ==
    \E r \in Recs :
        /\ pass[r].outcome = "no_turns"
        /\ hist[r].asr = "text"
        /\ hist[r].deletes = 0
        /\ transcripts # <<>>

\* an align call has returned
Aligner == call.fn = "align" /\ call.pc = "returned"

RECURSIVE NonBlankTexts(_)
\* the non-blank texts of a list of sentences, in order
NonBlankTexts(sentences) ==
    IF sentences = <<>> THEN <<>>
    ELSE IF Head(sentences).text = <<>> THEN NonBlankTexts(Tail(sentences))
         ELSE <<Head(sentences).text>> \o NonBlankTexts(Tail(sentences))

RECURSIVE SumNormLen(_)
\* the sum of len(normalize_text(text)) over a list of sentences
SumNormLen(sentences) ==
    IF sentences = <<>> THEN 0
    ELSE Len(normalize_text(Head(sentences).text)) + SumNormLen(Tail(sentences))

\* C14: the aligner never drops text: for every non-empty list of sentences
\* and every list of raw segments, each sentence's text is the text of
\* exactly one aligned sentence, so the normalized lengths sum to the same.
C14_AlignerKeepsText ==
    Aligner /\ call.args[1] # <<>>
        => /\ NonBlankTexts(call.out) = NonBlankTexts(call.args[1])
           /\ SumNormLen(call.out) = SumNormLen(call.args[1])

\* C14 as the code has it: the same, for every non-empty list of raw
\* segments (without raw segments the result is empty).
C14_AlignerKeepsTextGivenSegments ==
    Aligner /\ call.args[1] # <<>> /\ call.args[2] # <<>>
        => /\ NonBlankTexts(call.out) = NonBlankTexts(call.args[1])
           /\ SumNormLen(call.out) = SumNormLen(call.args[1])

\* C14, its case: two sentences with text against a single raw segment, so
\* that the second sentence finds no segment left and is timed by estimate.
C14_SentenceWithoutSegmentKept ==
    /\ Aligner
    /\ Len(call.args[1]) = 2 /\ Len(call.args[2]) = 1
    /\ \A k \in 1..2 : normalize_text(call.args[1][k].text) # <<>>
    /\ Len(call.out) = 2
    /\ call.out[2].start = call.out[1].end

\* C15: for raw segments ordered by start, the aligned sentences' start
\* values are non-decreasing in output order.
C15_AlignedStartsNonDecreasing ==
    Aligner => \A i, j \in 1..Len(call.out) :
                   i < j => call.out[i].start <= call.out[j].start

\* the sentences and raw segments of the call agree position by position in
\* their normalized texts
SameTexts ==
    /\ Len(call.args[1]) = Len(call.args[2])
    /\ \A k \in 1..Len(call.args[1]) :
           normalize_text(call.args[1][k].text) = normalize_text(call.args[2][k].text)

\* the k-th aligned sentence is the k-th sentence over the k-th raw segment
SegmentTimes ==
    /\ Len(call.out) = Len(call.args[1])
    /\ \A k \in 1..Len(call.args[1]) :
           call.out[k] = [start |-> call.args[2][k].start, end |-> call.args[2][k].end,
                          text |-> call.args[1][k].text,
                          gpt_speaker |-> call.args[1][k].speaker]

\* C17: when the raw segments are as many as the sentences and each
\* sentence's normalized text equals that of the raw segment at its position,
\* the k-th aligned sentence has exactly the start and end of the k-th raw
\* segment, with the sentence's text and formatter label.
C17_ExactTextsGetSegmentTimes ==
    Aligner /\ SameTexts => SegmentTimes

\* C17 as the code has it: the same, when no sentence text is blank (a blank
\* sentence is skipped and yields no aligned sentence).
C17_ExactTextsGetSegmentTimesNonBlank ==
    Aligner /\ SameTexts /\ (\A k \in 1..Len(call.args[1]) : call.args[1][k].text # <<>>)
        => SegmentTimes

\* C17, its case: two sentences with words, equal to their raw segments up
\* to punctuation.
C17_TwoExactSentences ==
    /\ Aligner /\ SameTexts
    /\ Len(call.args[1]) = 2
    /\ \A k \in 1..2 : normalize_text(call.args[1][k].text) # <<>>
    /\ call.args[1][1].text # call.args[2][1].text
    /\ call.out[2].start = SegMs

\* C16: the rows a pass has written, taken in increasing seq order, have
\* non-decreasing start_ms, and each has start_ms <= end_ms, in every tier.
C16_WrittenSegmentsOrdered ==
    \A r \in Recs : \A i, j \in 1..Len(transcripts) :
        transcripts[i].origin = r /\ transcripts[j].origin = r
            => /\ transcripts[i].start_ms <= transcripts[i].end_ms
               /\ transcripts[i].seq < transcripts[j].seq
                     => transcripts[i].start_ms <= transcripts[j].start_ms

\* an assign call has returned
Assigner == call.fn = "assign" /\ call.pc = "returned"

\* the sentence lies inside the turn
Inside(sent, turn) == turn.start <= sent.start /\ sent.end <= turn.end

\* the sentence and the turn intersect ("diar_start < sent_end and diar_end >
\* sent_start")
Meets(sent, turn) == turn.start < sent.end /\ turn.end > sent.start

\* sentence k of the call lies inside its turn i and meets no other turn
InsideOnly(k, i) ==
    /\ Inside(call.args[1][k], call.args[2][i])
    /\ \A j \in 1..Len(call.args[2]) : j # i => ~Meets(call.args[1][k], call.args[2][j])

\* sentence k is labelled with the speaker of turn i at confidence 1.0
LabelledBy(k, i) ==
    /\ call.out[k].speaker_id = call.args[2][i].speaker_id
    /\ call.out[k].confidence[1] = call.out[k].confidence[2]

\* C18: a sentence that lies inside exactly one turn and intersects no other
\* is labelled with that turn's speaker at confidence 1.0, whatever its
\* duration.
C18_ContainedSentenceGetsTurn ==
    Assigner => \A k \in 1..Len(call.args[1]) : \A i \in 1..Len(call.args[2]) :
                    InsideOnly(k, i) => LabelledBy(k, i)

\* C18 as the code has it: the same, for a sentence longer than 0.1 s.
C18_ContainedSentenceGetsTurnFromTenth ==
    Assigner => \A k \in 1..Len(call.args[1]) : \A i \in 1..Len(call.args[2]) :
                    InsideOnly(k, i) /\ call.args[1][k].end - call.args[1][k].start > 100
                        => LabelledBy(k, i)

\* C18, its case: among two turns of different speakers, a sentence of a
\* second and a half lies inside the turn of SPEAKER_01 alone and is labelled
\* with it.
C18_SentenceInsideSecondSpeaker ==
    /\ Assigner
    /\ Len(call.args[2]) = 2
    /\ call.args[2][1].speaker_id # call.args[2][2].speaker_id
    /\ \E k \in 1..Len(call.args[1]) : \E i \in 1..2 :
           /\ InsideOnly(k, i)
           /\ call.args[1][k].end - call.args[1][k].start > SegMs
           /\ call.args[2][i].speaker_id = "SPEAKER_01"
           /\ call.out[k].speaker_id = "SPEAKER_01"

RECURSIVE TotalOverlap(_, _)
\* the overlap of a sentence with all the turns together
TotalOverlap(sent, turns) ==
    IF turns = <<>> THEN 0
    ELSE Max2(0, Min2(sent.end, Head(turns).end) - Max2(sent.start, Head(turns).start))
         + TotalOverlap(sent, Tail(turns))

\* C19: a sentence whose total overlap with the turns is below 0.1 s (no
\* turn meeting it included) gets confidence 0 and the speaker assigned to
\* the sentence before it, SPEAKER_00 when it is the first; there is one
\* output sentence per input sentence, in order.
C19_SmallOverlapTakesPrevious ==
    Assigner =>
        /\ Len(call.out) = Len(call.args[1])
        /\ \A k \in 1..Len(call.args[1]) :
               TotalOverlap(call.args[1][k], call.args[2]) < 100
                   => /\ call.out[k].confidence[1] = 0
                      /\ call.out[k].speaker_id =
                             IF k = 1 THEN "SPEAKER_00" ELSE call.out[k - 1].speaker_id

\* C19, its case: the first sentence is labelled SPEAKER_01 by its overlap,
\* the second overlaps for less than 0.1 s, but not for nothing, and takes
\* SPEAKER_01 over.
C19_SecondSentenceTakesFirst ==
    /\ Assigner
    /\ Len(call.out) = 2
    /\ call.out[1].speaker_id = "SPEAKER_01" /\ call.out[1].confidence[1] > 0
    /\ TotalOverlap(call.args[1][2], call.args[2]) \in 1..99
    /\ call.out[2].speaker_id = "SPEAKER_01"

\* C20: merge_consecutive_same_speaker is idempotent: applied to what it
\* returned, it returns the same list.
C20_MergeIdempotent ==
    call.fn = "merge" /\ call.pc = "reapplied" => call.out = call.args[1]

\* C20, its case: the second application is over, on a list of two or more
\* segments one of which the first application had merged from two.
C20_MergedThenReapplied ==
    /\ call.fn = "merge" /\ call.pc = "reapplied"
    /\ Len(call.out) >= 2
    /\ \E i \in 1..Len(call.out) : Len(call.out[i].text) >= 2

\* ---- C21
\* the positions of segments in the order of sorted(segments, key=start_ms):
\* by start_ms, equal starts in their original order
StableOrder(segments) ==
    CHOOSE p \in [1..Len(segments) -> 1..Len(segments)] :
        /\ \A i, j \in 1..Len(segments) : i # j => p[i] # p[j]
        /\ \A i \in 1..Len(segments) - 1 :
              \/ segments[p[i]].start_ms < segments[p[i + 1]].start_ms
              \/ /\ segments[p[i]].start_ms = segments[p[i + 1]].start_ms
                 /\ p[i] < p[i + 1]

ByStart(segments) == [i \in 1..Len(segments) |-> segments[StableOrder(segments)[i]]]

\* b follows a within 2000 ms and has a's speaker
Joined(a, b) == b.speaker_id = a.speaker_id /\ b.start_ms - a.end_ms <= 2000

\* the positions of s where a new output segment starts
RunStarts(s) == {i \in 1..Len(s) : i = 1 \/ ~Joined(s[i - 1], s[i])}

\* the k-th of them, and the last position of the run that starts at i
KthStart(s, k) ==
    CHOOSE i \in RunStarts(s) : Cardinality({x \in RunStarts(s) : x <= i}) = k
RunEnd(s, i) ==
    CHOOSE j \in i..Len(s) :
        /\ \A x \in (i + 1)..j : x \notin RunStarts(s)
        /\ j = Len(s) \/ j + 1 \in RunStarts(s)

\* the run i..j of s as one segment: first start, last end, texts joined
Folded(s, i, j) ==
    [speaker_id |-> s[i].speaker_id, start_ms |-> s[i].start_ms, end_ms |-> s[j].end_ms,
     text |-> JoinTexts([x \in 1..(j - i + 1) |-> s[i + x - 1].text])]

TextsOf(segments) == JoinTexts([i \in 1..Len(segments) |-> segments[i].text])

\* C22: fallback_merge_with_full_text discards no text: for every non-blank
\* full text and every non-empty list of turns, the texts of the returned
\* segments, in order, are the words of the full text, each once and in the
\* original order.
C22_FallbackKeepsWords ==
    call.fn = "fallback" /\ call.pc = "returned"
    /\ call.args[1] # <<>> /\ call.args[2] # <<>>
        => TextsOf(call.out) = call.args[1]

\* ---- C23
\* the largest end_ms among rows, relative to the conversation's start; 0
\* when no row has an end_ms
LargestEndOffset(rows) ==
    LET ends == {rows[k].end_ms : k \in 1..Len(rows)} \ {None}
    IN  IF ends = {} THEN 0
        ELSE (CHOOSE m \in ends : \A x \in ends : x <= m) - ConvStartMs

\* the rows the pass of r keeps: those of the range it does not delete
KeptRows(r) == SeqLe(transcripts, StartSeq(r))

\* C23: the time_offset a pass computes is the largest end_ms among the rows
\* that remain after its delete step, minus the conversation's start (0 if
\* none); every row it writes starts at conversation start + time_offset +
\* relative start, hence not before the end of any row the pass keeps.
C23_OffsetAfterKeptRows ==
    [][\A r \in Recs :
         /\ pass[r].pc = "offset" /\ pass'[r].pc = "insert"
                => pass'[r].time_offset = LargestEndOffset(transcripts)
         /\ Creates(r)
                => /\ Created.start_ms >= ConvStartMs + pass[r].time_offset
                   /\ \A k \in 1..Len(KeptRows(r)) :
                         KeptRows(r)[k].end_ms # None
                            => Created.start_ms >= KeptRows(r)[k].end_ms]_vars

\* ---- C24
\* C24: when the conversation has been deleted while a pass runs, the pass
\* persists no segment for it; a PERSIST step that finds it gone ends the pass
\* in the outer except (outcome "error"), or, inside tier 1's inner try, starts
\* the one further save that ends there; and a pass that ends removes the
\* session record.
C24_DeletedConversationEndsPass ==
    [][\A r \in Recs :
         ~convExists /\ pass'[r] # pass[r]
            => /\ transcripts' = <<>>
               /\ pass[r].pc \in {"offset", "insert"}
                     => \/ pass'[r].pc = "done" /\ pass'[r].outcome = "error"
                        \/ /\ pass[r].mode = "final"
                           /\ pass'[r].pc = "delete" /\ pass'[r].mode = "retry"
               /\ pass'[r].pc = "done" => sessions' = NoSes]_vars

\* C24, its case: the conversation was deleted after the pass had created a
\* row; the pass is over with the error caught, no row is left and the session
\* record is gone.
C24_DeletedDuringPersist ==
    \E r \in Recs :
        /\ ~convExists
        /\ hist[r].written # <<>>
        /\ pass[r].pc = "done" /\ pass[r].outcome = "error"
        /\ transcripts = <<>>
        /\ sessions = NoSes

\* ---- C25
\* how many times publish i has been sent on ws
SentCount(i, ws) ==
    Cardinality({k \in 1..Len(channel.sent[ws]) : channel.sent[ws][k][1] = i})

\* publish i comes before publish j in what was sent on ws
SentBefore(i, j, ws) ==
    \A k, l \in 1..Len(channel.sent[ws]) :
        channel.sent[ws][k][1] = i /\ channel.sent[ws][l][1] = j => k < l

\* C25: a publish is sent exactly once to every websocket subscribed to its
\* conversation on its topic when it was called (the send may fail) and never
\* to another websocket, as text for pub_text and pub_tts_json and as bytes for
\* pub_tts_bytes; a publish called after another has returned reaches every
\* websocket after it.
C25_PublishReachesItsSubscribers ==
    channel.pc = "on" =>
        \A i \in 1..Len(channel.pubs) : \A ws \in Ws :
            /\ ws \notin channel.pubs[i].at => SentCount(i, ws) = 0
            /\ ws \in channel.pubs[i].failed => SentCount(i, ws) = 0
            /\ SentCount(i, ws) <= 1
            /\ channel.pubs[i].pc = "returned"
               /\ ws \in channel.pubs[i].at \ channel.pubs[i].failed
                  => SentCount(i, ws) = 1
            /\ \A k \in 1..Len(channel.sent[ws]) :
                  channel.sent[ws][k][1] = i
                     => channel.sent[ws][k][2]
                           = (IF channel.pubs[i].fn = "pub_tts_bytes" THEN "bytes" ELSE "text")
            /\ \A j \in channel.pubs[i].after : SentBefore(j, i, ws)

\* C25, its case: two publishes on one topic of conv-1, the second called
\* after the first returned, have both reached websocket 1 in that order,
\* while websocket 2, subscribed to conv-1 on the other topic and to conv-2 on
\* this one, has received nothing.
C25_TwoPublishesOneSubscriber ==
    /\ channel.pc = "on"
    /\ Len(channel.pubs) = 2
    /\ channel.pubs[1].fn = "pub_text" /\ channel.pubs[2].fn = "pub_text"
    /\ channel.pubs[1].conv_id = "conv-1" /\ channel.pubs[2].conv_id = "conv-1"
    /\ channel.pubs[2].after = {1}
    /\ channel.sent[1] = <<<<1, "text">>, <<2, "text">>>>
    /\ channel.sent[2] = <<>>
    /\ 2 \in channel.topics["tts"]["conv-1"]
    /\ 2 \in channel.topics["text"]["conv-2"]

\* ---- C26
\* C26: a send that fails during a publish does not end it: the publish
\* returns, having tried every websocket subscribed when it was called, and
\* every one of them whose own send did not fail has received the message.
C26_FailedSendSkipped ==
    channel.pc = "on" =>
        \A i \in 1..Len(channel.pubs) :
            channel.pubs[i].pc = "returned" /\ channel.pubs[i].failed # {}
               => /\ {channel.pubs[i].tried[k] : k \in 1..Len(channel.pubs[i].tried)}
                        = channel.pubs[i].at
                  /\ \A ws \in channel.pubs[i].at \ channel.pubs[i].failed :
                        \E k \in 1..Len(channel.sent[ws]) : channel.sent[ws][k][1] = i

\* C26, its case: a publish to two subscribers has returned; the send to the
\* first one tried failed and the second one has the message.
C26_SecondSubscriberServed ==
    /\ channel.pc = "on"
    /\ \E i \in 1..Len(channel.pubs) :
          /\ channel.pubs[i].pc = "returned"
          /\ Len(channel.pubs[i].tried) = 2
          /\ channel.pubs[i].failed = {channel.pubs[i].tried[1]}
          /\ channel.sent[channel.pubs[i].tried[2]] = <<<<i, channel.pubs[i].how>>>>

\* ---- C27
\* s is an initial part of t
IsPrefix(s, t) == Len(s) <= Len(t) /\ s = SubSeq(t, 1, Len(s))

\* C27: the gate runs its checks in the order empty text, ASR confidence,
\* repetition, pattern sanity and the topic-history check last, stops at the
\* first one that fails and returns its verdict; a text it rejects leaves the
\* history buffer as it was.
C27_ChecksInFixedOrder ==
    detector.pc = "on" =>
        /\ IsPrefix(detector.ran, <<"empty", "confidence", "repetition", "patterns", "coherence">>)
        /\ detector.result.is_hallucination => detector.history_texts = detector.before

\* ---- C28
\* C28: the history buffer holds at most 5 texts, each remembered by a call
\* that returned is_hallucination = false; on an empty history the topic check
\* flags nothing.
C28_HistoryHoldsAcceptedTexts ==
    detector.pc = "on" =>
        /\ Len(detector.history_texts) <= 5
        /\ \A k \in 1..Len(detector.history_from) : ~detector.history_from[k]
        /\ detector.before = <<>>
              => detector.result.reason \notin {"topic_shift", "duplicate_across_transcripts"}

\* ---------------------------------------------------------------- C29
\* seg reaches the threshold for turn: its overlap with the turn is at least
\* 45 % of its own duration
Reaches(seg, turn) ==
    LET overlap == Min2(turn.end_ms, seg.end_ms) - Max2(turn.start_ms, seg.start_ms)
        duration == seg.end_ms - seg.start_ms
    IN  duration > 0 /\ 100 * overlap >= OVERLAP_THRESHOLD * duration

\* the indices, in original order, of the segments that reach the threshold
\* for turn d
Owed(segs, turns, d) ==
    LET T(i) == Reaches(segs[i], turns[d])
    IN  SelectSeq([i \in 1..Len(segs) |-> i], T)

\* those of them that reach it for no earlier turn of the list
Taken(segs, turns, d) ==
    LET T(i) == \A e \in 1..(d - 1) : ~Reaches(segs[i], turns[e])
    IN  SelectSeq(Owed(segs, turns, d), T)

TextOfSegments(segs, idx) == JoinTexts([k \in 1..Len(idx) |-> segs[idx[k]].text])

RECURSIVE IsSubsequence(_, _)
IsSubsequence(a, b) ==
    IF a = <<>> THEN TRUE
    ELSE IF b = <<>> THEN FALSE
    ELSE IF Head(a) = Head(b) THEN IsSubsequence(Tail(a), Tail(b))
    ELSE IsSubsequence(a, Tail(b))

TaggedAs(o, turn) ==
    /\ o.speaker_id = turn.speaker_id
    /\ o.start_ms = turn.start_ms
    /\ o.end_ms = turn.end_ms

\* a segment that reaches the threshold for no turn is in no output text
UnmatchedExcluded(segs, turns, out) ==
    \A i \in 1..Len(segs) :
        (\A d \in 1..Len(turns) : ~Reaches(segs[i], turns[d]))
        => \A k \in 1..Len(out) : ~IsSubsequence(segs[i].text, out[k].text)

RECURSIVE AlignTrace(_, _, _, _)
\* the rounds of the outer loop of align_sentences_with_whisper from sentence
\* k on: for every sentence that is not blank, the cursor before and after
\* it and the segments it has matched
AlignTrace(gpt_sentences, segs, k, whisper_idx) ==
    IF k > Len(gpt_sentences) THEN <<>>
    ELSE IF gpt_sentences[k].text = <<>>
         THEN AlignTrace(gpt_sentences, segs, k + 1, whisper_idx)
         ELSE LET found == Forced(AlignSearch(gpt_sentences[k].text, segs, whisper_idx,
                                              <<>>, <<>>, whisper_idx),
                                  segs)
              IN  <<[before |-> whisper_idx, after |-> found.whisper_idx,
                     matched |-> found.matched]>>
                  \o AlignTrace(gpt_sentences, segs, k + 1, found.whisper_idx)

\* the rounds of the returned call
Rounds == AlignTrace(call.args[1], call.args[2], 1, 0)

\* the segments that give a round its start and its end
Contributes(round) ==
    IF round.matched = <<>> THEN {}
    ELSE {round.matched[1], round.matched[Len(round.matched)]}

\* the cursor moves forward only and stays within the list
CursorForward ==
    \A n \in 1..Len(Rounds) :
        /\ Rounds[n].before <= Rounds[n].after
        /\ Rounds[n].after <= Len(call.args[2])

\* the rounds are those of the value returned
RoundsOfOutput ==
    /\ Len(Rounds) = Len(call.out)
    /\ \A n \in 1..Len(Rounds) :
           Rounds[n].matched # <<>> =>
               /\ call.out[n].start = Rounds[n].matched[1].start
               /\ call.out[n].end = Rounds[n].matched[Len(Rounds[n].matched)].end

\* C30: the Aligner's cursor moves forward only and never exceeds the length
\* of the list, and no raw segment gives its start or its end to more than
\* one AlignedSentence, whatever the similarities are.
C30_SegmentInOneSentence ==
    (call.fn = "align" /\ call.pc = "returned" /\ call.args[1] # <<>>
                       /\ call.args[2] # <<>>) =>
        /\ RoundsOfOutput
        /\ CursorForward
        /\ \A m, n \in 1..Len(Rounds) :
               m # n => Contributes(Rounds[m]) \cap Contributes(Rounds[n]) = {}

\* ---------------------------------------------------------------- C31
RECURSIVE AccumulatedText(_, _, _)
\* the texts of segments from + 1 .. to (1-based), one after the other
AccumulatedText(segs, from, to) ==
    IF from >= to THEN <<>>
    ELSE segs[from + 1].text \o AccumulatedText(segs, from + 1, to)

\* some segment from the cursor on reaches the stop condition for gpt_text
StopReached(gpt_text, segs, whisper_idx) ==
    \E i \in (whisper_idx + 1)..Len(segs) :
        LET acc == AccumulatedText(segs, whisper_idx, i)
        IN  \/ SimAbove(text_similarity(gpt_text, acc), 70)
            \/ Len(normalize_text(acc)) >= Len(normalize_text(gpt_text))

\* C31: a sentence processed while raw segments remain and none of them
\* reaches the stop condition consumes exactly one segment as a forced
\* match: the cursor advances by 1 and the sentence takes the start and the
\* end of that segment.
C31_ForcedMatchConsumesOne ==
    (call.fn = "align" /\ call.pc = "returned" /\ call.args[1] # <<>>
                       /\ call.args[2] # <<>>) =>
        \A n \in 1..Len(Rounds) :
            (/\ Rounds[n].before < Len(call.args[2])
             /\ ~StopReached(call.out[n].text, call.args[2], Rounds[n].before))
            => /\ Rounds[n].after = Rounds[n].before + 1
               /\ call.out[n].start = call.args[2][Rounds[n].before + 1].start
               /\ call.out[n].end = call.args[2][Rounds[n].before + 1].end

\* ---------------------------------------------------------------- C32
RECURSIVE SpeakerOverlap(_, _, _)
\* the overlap of a sentence with the turns of one speaker
SpeakerOverlap(sent, turns, spk) ==
    IF turns = <<>> THEN 0
    ELSE (IF Head(turns).speaker_id = spk
          THEN Max2(0, Min2(sent.end, Head(turns).end) - Max2(sent.start, Head(turns).start))
          ELSE 0)
         + SpeakerOverlap(sent, Tail(turns), spk)

\* C32: a sentence whose total overlap with the turns is at least 0.1 s gets
\* a speaker whose accumulated overlap is maximal among the speakers, and as
\* confidence that overlap divided by the total overlap, above 0 and at
\* most 1.
C32_MaximalOverlapWins ==
    Assigner =>
        \A k \in 1..Len(call.args[1]) :
            LET sent == call.args[1][k]
                turns == call.args[2]
                total == TotalOverlap(sent, turns)
                own == SpeakerOverlap(sent, turns, call.out[k].speaker_id)
                conf == call.out[k].confidence
            IN  total >= 100 =>
                    /\ \A spk \in Speakers : SpeakerOverlap(sent, turns, spk) <= own
                    /\ conf[1] * total = own * conf[2]
                    /\ conf[2] > 0
                    /\ 0 < conf[1]
                    /\ conf[1] <= conf[2]

\* a returned call whose sentence meets both speakers, the second one for
\* longer, and is given to the second with a confidence below 1
C32_SecondSpeakerLonger ==
    /\ Assigner
    /\ Len(call.args[1]) = 1
    /\ Len(call.args[2]) = 2
    /\ LET sent == call.args[1][1]
           turns == call.args[2]
       IN  /\ turns[1].speaker_id # turns[2].speaker_id
           /\ 100 <= SpeakerOverlap(sent, turns, turns[1].speaker_id)
           /\ SpeakerOverlap(sent, turns, turns[1].speaker_id)
                  < SpeakerOverlap(sent, turns, turns[2].speaker_id)
           /\ call.out[1].speaker_id = turns[2].speaker_id
           /\ call.out[1].confidence[1] < call.out[1].confidence[2]

\* ---------------------------------------------------------------- C33
\* C33: in tier 1 with diarization disabled the pass creates one row per
\* formatter sentence of non-blank text, in list order: the row of the
\* sentence at position k carries its text, SPEAKER_<label> and, before the
\* offset is added, the window (k-1)*3000 .. k*3000 ms; at the notification
\* every such sentence has its row.
C33_PlainRowsByPosition ==
    [][\A r \in Recs :
          /\ (pass[r].mode = "plain" /\ Creates(r)) =>
                \E k \in 1..Len(pass[r].formatted) :
                    LET sent == pass[r].formatted[k]
                        base == ConvStartMs + pass[r].time_offset
                    IN  /\ sent.text # <<>>
                        /\ Len(NonBlankTexts(SubSeq(pass[r].formatted, 1, k)))
                               = Len(hist'[r].written)
                        /\ Created.text = sent.text
                        /\ Created.speaker_id = "SPEAKER_" \o sent.speaker
                        /\ Created.start_ms = base + (k - 1) * 3000
                        /\ Created.end_ms = base + k * 3000
          /\ (pass'[r].mode = "plain" /\ pass'[r].pc = "notify") =>
                Len(hist'[r].written) = Len(NonBlankTexts(pass'[r].formatted))]_vars

\* C33, its case: with diarization disabled a pass is at its notification
\* having written the row of the second sentence of the formatter's list,
\* the first being blank, with the window of the second position.
C33_SecondPositionWritten ==
    \E r \in Recs :
        /\ ~settings.enable_diarization
        /\ pass[r].mode = "plain"
        /\ pass[r].pc = "notify"
        /\ Len(pass[r].formatted) = 2
        /\ pass[r].formatted[1].text = <<>>
        /\ Len(hist[r].written) = 1
        /\ \E i \in 1..Len(transcripts) :
               /\ transcripts[i].origin = r
               /\ transcripts[i].speaker_id = "SPEAKER_A"
               /\ transcripts[i].start_ms = ConvStartMs + pass[r].time_offset + 3000

\* ---------------------------------------------------------------- C34
\* C34: in tier 1, whichever way the diarization step went and whatever
\* segments the ASR call returned, every row the pass creates carries the
\* text of a formatter sentence, and when the pass reaches its notification
\* it has created exactly one row per formatter sentence of non-blank text.
C34_EverySentencePersisted ==
    [][\A r \in Recs :
          /\ (pass[r].mode \in {"plain", "final", "retry"} /\ Creates(r)) =>
                /\ Len(hist'[r].written) <= Len(NonBlankTexts(pass[r].formatted))
                /\ Created.text = NonBlankTexts(pass[r].formatted)[Len(hist'[r].written)]
          /\ pass'[r].pc = "notify" =>
                Len(hist'[r].written) = Len(NonBlankTexts(pass'[r].formatted))]_vars

\* ---------------------------------------------------------------- C35
\* C35: with the recordings one after the other, the delete of a pass
\* removes no row that the pass of an earlier recording has created.
C35_EarlierRowsSurvive ==
    [][\A r \in Recs :
          hist'[r].deletes > hist[r].deletes =>
              \A i \in 1..Len(transcripts) :
                  transcripts[i].origin \notin {0, r} =>
                      \E j \in 1..Len(transcripts') : transcripts'[j] = transcripts[i]]_vars

\* ---------------------------------------------------------------- C36
\* C36: with the append requests and the passes one after the other, the
\* rows of the conversation have pairwise distinct seq values at every
\* moment.
C36_SeqValuesDistinct ==
    \A i, j \in 1..Len(transcripts) :
        i # j => transcripts[i].seq # transcripts[j].seq

\* ---------------------------------------------------------------- C37
\* C37: the session record a start message has put into _sessions is
\* eventually removed from it, whether the connection ends by a stop
\* message, by a disconnect or by an error.
C37_SessionEventuallyRemoved ==
    \A r \in Recs : (sessions = r) ~> (sessions # r)

\* ---------------------------------------------------------------- C38
\* C38: once a subscriber connection has closed, its websocket is in the
\* subscriber set of no conversation, on either topic, so that no publish
\* takes it, also when it has subscribed to several conversations.
C38_ClosedSocketUnsubscribed ==
    channel.pc = "ws" =>
        \A ws \in Ws :
            channel.handlers[ws].state = "closed" =>
                \A topic \in Topics : \A conv_id \in Convs : ws \notin Conns(topic, conv_id)

====
